---- MODULE Spec2Model ----
(***************************************************************************)
(* Position replay, activity collection and lifetime analytics of the      *)
(* Poly-Arb-Bot dashboard server (src/src/server.ts) and dashboard client  *)
(* (src/dashboard/src/App.tsx).                                            *)
(*                                                                         *)
(* JavaScript numbers are modelled as exact rationals [n, d] in lowest     *)
(* terms with d > 0; a raw field that is absent (undefined / null) is the  *)
(* value with d = 0.  Floating-point rounding is modelled where the        *)
(* analytics depend on it: the amounts of computeLifetimeAnalytics are      *)
(* binary64 numbers.                                                       *)
(***************************************************************************)
EXTENDS Integers, Sequences, FiniteSets, TLC

VARIABLES
    pc,          \* position of the replay request: idle, summary, history, done
    trades,      \* the TradeActivity[] handed to both replays (arrival order)
    sorted,      \* the part of the sorted copy the running loop has not yet visited
    sPositions,  \* computePositionSummary's `positions` Map, in insertion order
    summary,     \* the PositionSummaryEntry[] returned by computePositionSummary
    hPositions,  \* computePositionHistory's `positions` Map, in insertion order
    history,     \* computePositionHistory's `history` array
    feed,        \* the account's records upstream, newest first
    grown,       \* records upstream has added since the first page of the run
    batchSize,   \* ACTIVITY_RANGE_BATCH_SIZE of the deployment
    upstream,    \* "static": pages are windows of the feed; "repeat": one page for all
    call,        \* the parameters of the collection request being served
    run,         \* the locals of the loop that serves it
    log,         \* the page requests of the run: their number and the last two
    earlier,     \* the runs completed before this one was resumed from them
    flight,      \* the /api/activity request handleRangeExport is waiting for
    cancelRef,   \* rangeExportCancelRef.current
    activities,  \* the activities handed to computeLifetimeAnalytics
    analytics,   \* what computeLifetimeAnalytics returned for them
    bot          \* the bot: state, startedAt, lastError, its services and the
                 \* startBot and stopBot calls waiting at an await

replayVars == <<pc, trades, sorted, sPositions, summary, hPositions, history>>

collectVars == <<feed, grown, batchSize, upstream, call, run, log, earlier>>

cancelVars == <<flight, cancelRef>>

analyticsVars == <<activities, analytics>>

vars == <<pc, trades, sorted, sPositions, summary, hPositions, history,
          feed, grown, batchSize, upstream, call, run, log, earlier,
          flight, cancelRef, activities, analytics, bot>>

-----------------------------------------------------------------------------
(* Bounds *)

\* longest input of the replay
MaxEvents == 3

\* startBot and stopBot calls of a run
MaxCalls == 4

-----------------------------------------------------------------------------
(* The bot when the module is loaded: state 'stopped', startedAt and        *)
(* lastError null, no service started, no call under way                    *)

BotAtLoad ==
    [state |-> "stopped", startedAt |-> 0, lastError |-> "", monitor |-> FALSE,
     executor |-> FALSE, calls |-> <<>>, issued |-> 0]

-----------------------------------------------------------------------------
(* Exact rational arithmetic *)

Abs(x) == IF x < 0 THEN -x ELSE x

RECURSIVE Gcd(_, _)
Gcd(a, b) == IF b = 0 THEN a ELSE Gcd(b, a % b)

Rat(n, d) ==
    LET s == IF d < 0 THEN -1 ELSE 1
        g == Gcd(Abs(n), Abs(d))
    IN  [n |-> (s * n) \div g, d |-> (s * d) \div g]

R(k) == [n |-> k, d |-> 1]
Zero == R(0)
Missing == [n |-> 0, d |-> 0]

RAdd(a, b) == Rat(a.n * b.d + b.n * a.d, a.d * b.d)
RSub(a, b) == Rat(a.n * b.d - b.n * a.d, a.d * b.d)
RMul(a, b) == Rat(a.n * b.n, a.d * b.d)
RDiv(a, b) == Rat(a.n * b.d, a.d * b.n)
RNeg(a) == [n |-> -a.n, d |-> a.d]
RAbs(a) == [n |-> Abs(a.n), d |-> a.d]
RLt(a, b) == a.n * b.d < b.n * a.d
RLe(a, b) == a.n * b.d <= b.n * a.d
RPos(a) == a.n > 0
RIsZero(a) == a.n = 0
RMin(a, b) == IF RLe(a, b) THEN a ELSE b

-----------------------------------------------------------------------------
(* Helpers of the replay *)

\* parseNumber: null / undefined give 0, a number is returned as it is
parseNumber(value) == IF value.d = 0 THEN Zero ELSE value

\* normalizeSide: 'sell' in any letter case is a sell, everything else a buy
normalizeSide(side) == IF side \in {"SELL", "sell", "Sell"} THEN "sell" ELSE "buy"

\* The source tells seconds from milliseconds at 10^12, which TLC's 32-bit
\* integers cannot hold: the model's clock counts seconds below 100000 and
\* milliseconds from 100000 on, the same split at the model's scale.
MsThreshold == 100000

\* normalizeTimestampMs: seconds become milliseconds
normalizeTimestampMs(timestamp) ==
    IF timestamp < MsThreshold THEN timestamp * 1000 ELSE timestamp

\* normalizeTimestampSeconds: milliseconds become seconds
normalizeTimestampSeconds(timestamp) ==
    IF timestamp >= MsThreshold THEN timestamp \div 1000 ELSE timestamp

\* first non-empty string of a || chain
FirstOf(strs) ==
    LET idx == {i \in 1..Len(strs) : strs[i] # ""}
    IN  IF idx = {} THEN "" ELSE strs[CHOOSE i \in idx : \A j \in idx : i <= j]

\* getPositionKey: the asset, else `${label}:${outcome}` with the sentinels
getPositionKey(trade) ==
    IF trade.asset # ""
    THEN <<trade.asset, "", "">>
    ELSE <<"",
           FirstOf(<<trade.slug, trade.title, trade.eventSlug, "unknown-market">>),
           FirstOf(<<trade.outcome, "unknown-outcome">>)>>

\* the comparator of both replays: a.timestamp - b.timestamp || a.index - b.index
SortBefore(a, b) ==
    \/ a.timestamp < b.timestamp
    \/ a.timestamp = b.timestamp /\ a.index < b.index

RECURSIVE InsertSorted(_, _)
InsertSorted(entry, seq) ==
    IF seq = <<>> THEN <<entry>>
    ELSE IF SortBefore(entry, Head(seq)) THEN <<entry>> \o seq
    ELSE <<Head(seq)>> \o InsertSorted(entry, Tail(seq))

RECURSIVE SortEntries(_)
SortEntries(seq) ==
    IF seq = <<>> THEN <<>>
    ELSE InsertSorted(Head(seq), SortEntries(Tail(seq)))

\* trades.map(index, timestamp).sort(...).map(entry => entry.trade)
SortTrades(ts) ==
    LET tagged == [i \in 1..Len(ts) |->
                      [trade |-> ts[i], index |-> i,
                       timestamp |-> normalizeTimestampMs(ts[i].timestamp)]]
        ordered == SortEntries(tagged)
    IN  [i \in 1..Len(ts) |-> ordered[i].trade]

\* tradeSize / tradePrice resolution shared by both loops
ResolveSize(trade) ==
    LET tradePrice == parseNumber(trade.price)
        tradeUsdc == parseNumber(trade.usdcSize)
        tradeSize == parseNumber(trade.size)
    IN  IF RIsZero(tradeSize) /\ RPos(tradePrice) /\ RPos(tradeUsdc)
        THEN RDiv(tradeUsdc, tradePrice)
        ELSE tradeSize

ResolvePrice(trade) ==
    LET tradePrice == parseNumber(trade.price)
        tradeUsdc == parseNumber(trade.usdcSize)
        tradeSize == ResolveSize(trade)
    IN  IF RIsZero(tradePrice) /\ RPos(tradeSize) /\ RPos(tradeUsdc)
        THEN RDiv(tradeUsdc, tradeSize)
        ELSE tradePrice

\* Map.get / Map.set on a Map kept as a sequence of entries in insertion order
MapHas(map, key) == \E i \in 1..Len(map) : map[i].key = key
MapGet(map, key) == map[CHOOSE i \in 1..Len(map) : map[i].key = key]
MapSet(map, entry) ==
    IF MapHas(map, entry.key)
    THEN [i \in 1..Len(map) |-> IF map[i].key = entry.key THEN entry ELSE map[i]]
    ELSE Append(map, entry)

-----------------------------------------------------------------------------
(* computePositionSummary *)

SummaryDefault(key) ==
    [key |-> key, buySize |-> Zero, buyCost |-> Zero, sellSize |-> Zero,
     sellProceeds |-> Zero, openSize |-> Zero, costBasisUsd |-> Zero,
     realizedPnl |-> Zero, lastPrice |-> Missing, lastTradeAt |-> 0]

\* the buy branch of the summary loop
SummaryBuy(existing, tradeSize, tradeUsdc) ==
    [existing EXCEPT !.buySize = RAdd(@, tradeSize),
                     !.buyCost = RAdd(@, tradeUsdc),
                     !.openSize = RAdd(@, tradeSize),
                     !.costBasisUsd = RAdd(@, tradeUsdc)]

\* the sell branch of the summary loop
SummarySell(existing, tradeSize, tradeUsdc) ==
    LET sold == [existing EXCEPT !.sellSize = RAdd(@, tradeSize),
                                 !.sellProceeds = RAdd(@, tradeUsdc)]
    IN  IF RPos(existing.openSize) /\ RPos(tradeSize)
        THEN LET avgCost == RDiv(existing.costBasisUsd, existing.openSize)
                 openSize == RSub(existing.openSize, tradeSize)
                 costBasis == RSub(existing.costBasisUsd, RMul(avgCost, tradeSize))
                 clamp == RLe(openSize, Zero)
             IN  [sold EXCEPT
                    !.realizedPnl = RAdd(@, RSub(tradeUsdc, RMul(avgCost, tradeSize))),
                    !.openSize = IF clamp THEN Zero ELSE openSize,
                    !.costBasisUsd = IF clamp THEN Zero ELSE costBasis]
        ELSE sold

\* one iteration of the summary loop: the entry stored for the trade's key
SummaryApply(positions, trade) ==
    LET side == normalizeSide(trade.side)
        tradePrice == ResolvePrice(trade)
        tradeUsdc == parseNumber(trade.usdcSize)
        tradeSize == ResolveSize(trade)
        key == getPositionKey(trade)
        found == IF MapHas(positions, key) THEN MapGet(positions, key)
                 ELSE SummaryDefault(key)
        priced == IF RPos(tradePrice) THEN [found EXCEPT !.lastPrice = tradePrice]
                  ELSE found
        existing == IF trade.timestamp > 0
                    THEN [priced EXCEPT !.lastTradeAt = trade.timestamp]
                    ELSE priced
    IN  IF side = "buy" THEN SummaryBuy(existing, tradeSize, tradeUsdc)
        ELSE SummarySell(existing, tradeSize, tradeUsdc)

\* the closing map of computePositionSummary
SummaryEntry(pos) ==
    LET open == RPos(pos.openSize)
        hasMark == pos.lastPrice.d # 0 /\ ~RIsZero(pos.lastPrice)
        unrealized == IF open /\ hasMark
                      THEN RSub(RMul(pos.lastPrice, pos.openSize), pos.costBasisUsd)
                      ELSE Missing
    IN  [key |-> pos.key,
         buySize |-> pos.buySize, buyCost |-> pos.buyCost,
         avgEntry |-> IF RPos(pos.buySize) THEN RDiv(pos.buyCost, pos.buySize) ELSE Zero,
         sellSize |-> pos.sellSize, sellProceeds |-> pos.sellProceeds,
         avgExit |-> IF RPos(pos.sellSize) THEN RDiv(pos.sellProceeds, pos.sellSize)
                     ELSE Zero,
         realizedPnl |-> pos.realizedPnl,
         unrealizedPnl |-> unrealized,
         totalPnl |-> RAdd(pos.realizedPnl, parseNumber(unrealized)),
         openSize |-> pos.openSize,
         lastPrice |-> pos.lastPrice,
         lastTradeAt |-> pos.lastTradeAt,
         status |-> IF open THEN "OPEN" ELSE "CLOSED"]

-----------------------------------------------------------------------------
(* computePositionHistory *)

HistoryDefault(key) ==
    [key |-> key, size |-> Zero, costBasisUsd |-> Zero, avgPrice |-> Zero,
     realizedPnl |-> Zero]

\* HistorySell with the average cost taken over the trade's size
HistorySell_AvgOverTradeSize(existing, tradeSize, tradeUsdc) ==
    IF RPos(tradeSize) /\ RPos(existing.size)
    THEN LET avgCost == RDiv(existing.costBasisUsd, tradeSize)
         IN  [realizedDelta |-> RSub(tradeUsdc, RMul(avgCost, tradeSize)),
              nextSize |-> RSub(existing.size, tradeSize),
              nextCostBasis |-> RSub(existing.costBasisUsd, RMul(avgCost, tradeSize))]
    ELSE [realizedDelta |-> Zero, nextSize |-> existing.size,
          nextCostBasis |-> existing.costBasisUsd]

\* realizedDelta, nextSize and nextCostBasis of a sell, before the clamp
HistorySell(existing, tradeSize, tradeUsdc) ==
    IF RPos(tradeSize) /\ RPos(existing.size)
    THEN LET avgCost == RDiv(existing.costBasisUsd, existing.size)
         IN  [realizedDelta |-> RSub(tradeUsdc, RMul(avgCost, tradeSize)),
              nextSize |-> RSub(existing.size, tradeSize),
              nextCostBasis |-> RSub(existing.costBasisUsd, RMul(avgCost, tradeSize))]
    ELSE [realizedDelta |-> Zero, nextSize |-> existing.size,
          nextCostBasis |-> existing.costBasisUsd]

\* nextSize and nextCostBasis of a buy, before the clamp
HistoryBuy(existing, tradeSize, tradeUsdc) ==
    [realizedDelta |-> Zero,
     nextSize |-> RAdd(existing.size, tradeSize),
     nextCostBasis |-> RAdd(existing.costBasisUsd, tradeUsdc)]

\* if (nextSize <= 0) { nextSize = 0; nextCostBasis = 0; }
HistoryClamp(step) ==
    IF RLe(step.nextSize, Zero)
    THEN [step EXCEPT !.nextSize = Zero, !.nextCostBasis = Zero]
    ELSE step

\* an iteration that reports the realized delta of the event as the running total
HistoryApply_DeltaAsCumulative(positions, trade) ==
    LET side == normalizeSide(trade.side)
        tradePrice == ResolvePrice(trade)
        tradeUsdc == parseNumber(trade.usdcSize)
        tradeSize == ResolveSize(trade)
        key == getPositionKey(trade)
        existing == IF MapHas(positions, key) THEN MapGet(positions, key)
                    ELSE HistoryDefault(key)
        step == HistoryClamp(IF side = "sell"
                             THEN HistorySell(existing, tradeSize, tradeUsdc)
                             ELSE HistoryBuy(existing, tradeSize, tradeUsdc))
    IN  [key |-> key, side |-> side,
         tradePrice |-> tradePrice, tradeSize |-> tradeSize, tradeUsdc |-> tradeUsdc,
         timestamp |-> trade.timestamp,
         positionSize |-> step.nextSize,
         positionCostBasis |-> step.nextCostBasis,
         positionAvgPrice |-> IF ~RIsZero(step.nextSize)
                              THEN RAbs(RDiv(step.nextCostBasis, step.nextSize))
                              ELSE Zero,
         realizedPnl |-> step.realizedDelta,
         cumulativeRealizedPnl |-> step.realizedDelta,
         status |-> IF RIsZero(step.nextSize) THEN "CLOSED" ELSE "OPEN"]


\* one iteration of the history loop: the PositionHistoryEntry pushed
HistoryApply(positions, trade) ==
    LET side == normalizeSide(trade.side)
        tradePrice == ResolvePrice(trade)
        tradeUsdc == parseNumber(trade.usdcSize)
        tradeSize == ResolveSize(trade)
        key == getPositionKey(trade)
        existing == IF MapHas(positions, key) THEN MapGet(positions, key)
                    ELSE HistoryDefault(key)
        step == HistoryClamp(IF side = "sell"
                             THEN HistorySell(existing, tradeSize, tradeUsdc)
                             ELSE HistoryBuy(existing, tradeSize, tradeUsdc))
    IN  [key |-> key, side |-> side,
         tradePrice |-> tradePrice, tradeSize |-> tradeSize, tradeUsdc |-> tradeUsdc,
         timestamp |-> trade.timestamp,
         positionSize |-> step.nextSize,
         positionCostBasis |-> step.nextCostBasis,
         positionAvgPrice |-> IF ~RIsZero(step.nextSize)
                              THEN RAbs(RDiv(step.nextCostBasis, step.nextSize))
                              ELSE Zero,
         realizedPnl |-> step.realizedDelta,
         cumulativeRealizedPnl |-> RAdd(existing.realizedPnl, step.realizedDelta),
         status |-> IF RIsZero(step.nextSize) THEN "CLOSED" ELSE "OPEN"]

\* positions.set(key, {...}) at the end of the iteration
HistoryPosition(entry) ==
    [key |-> entry.key, size |-> entry.positionSize,
     costBasisUsd |-> entry.positionCostBasis, avgPrice |-> entry.positionAvgPrice,
     realizedPnl |-> entry.cumulativeRealizedPnl]

-----------------------------------------------------------------------------
(* Inputs of the replay *)

Trade(side, size, usdcSize, price, asset, timestamp) ==
    [side |-> side, size |-> size, usdcSize |-> usdcSize, price |-> price,
     asset |-> asset, slug |-> "", title |-> "", eventSlug |-> "", outcome |-> "",
     timestamp |-> timestamp]

\* buys and sells of sizes 0, 1, 2 for a notional of 3 on one instrument
CoreTrades ==
    {Trade(side, size, R(3), Missing, "A", 1) :
        side \in {"BUY", "SELL"}, size \in {R(0), R(1), R(2)}}

\* the shapes upstream records also take: a negative size, a size that has to be
\* derived from notional / price, a second instrument, a record without asset
\* (composite key), and a record that arrives late but carries no timestamp
EdgeTrades ==
    {Trade("BUY", R(-1), R(3), Missing, "A", 1),
     Trade("BUY", Missing, R(3), R(2), "A", 1),
     Trade("BUY", R(1), R(3), Missing, "B", 1),
     [Trade("SELL", R(1), R(3), Missing, "", 1) EXCEPT !.slug = "m", !.outcome = "Yes"],
     Trade("BUY", R(2), R(3), Missing, "A", 0)}

TradeDomain == CoreTrades \cup EdgeTrades

\* Scenario A: BUY 10 @ 0.40, SELL 10 @ 0.60
ScenarioA ==
    <<Trade("BUY", R(10), R(4), Rat(2, 5), "A", 1),
      Trade("SELL", R(10), R(6), Rat(3, 5), "A", 2)>>

\* Scenario B: BUY 10 @ 0.50, SELL 4 @ 0.70
ScenarioB ==
    <<Trade("BUY", R(10), R(5), Rat(1, 2), "A", 1),
      Trade("SELL", R(4), Rat(14, 5), Rat(7, 10), "A", 2)>>

ReplayInputs ==
    UNION {[1..n -> TradeDomain] : n \in 0..MaxEvents} \cup {ScenarioA, ScenarioB}

-----------------------------------------------------------------------------
(* The replay request: /api/trader/profile runs computePositionSummary and  *)
(* then computePositionHistory on the same trades                           *)

ReplayInit ==
    /\ pc = "idle"
    /\ trades \in ReplayInputs
    /\ sorted = <<>>
    /\ sPositions = <<>>
    /\ summary = <<>>
    /\ hPositions = <<>>
    /\ history = <<>>
    /\ feed = <<>>
    /\ grown = 0
    /\ batchSize = 0
    /\ upstream = "static"
    /\ call = <<>>
    /\ run = <<>>
    /\ log = <<>>
    /\ earlier = <<>>
    /\ flight = <<>>
    /\ cancelRef = FALSE
    /\ bot = BotAtLoad
    /\ activities = <<>>
    /\ analytics = <<>>

\* a summary replay that goes on with the positions Map of the call before
SummaryBegin_KeepsPositions ==
    /\ pc = "idle"
    /\ pc' = "summary"
    /\ sorted' = SortTrades(trades)
    /\ UNCHANGED <<trades, sPositions, summary, hPositions, history>>
    /\ UNCHANGED <<collectVars, cancelVars, analyticsVars, bot>>

SummaryBegin ==
    /\ pc = "idle"
    /\ pc' = "summary"
    /\ sorted' = SortTrades(trades)
    /\ sPositions' = <<>>
    /\ UNCHANGED <<trades, summary, hPositions, history>>
    /\ UNCHANGED <<collectVars, cancelVars, analyticsVars, bot>>

SummaryStep ==
    /\ pc = "summary"
    /\ sorted # <<>>
    /\ sPositions' = MapSet(sPositions, SummaryApply(sPositions, Head(sorted)))
    /\ sorted' = Tail(sorted)
    /\ UNCHANGED <<pc, trades, summary, hPositions, history>>
    /\ UNCHANGED <<collectVars, cancelVars, analyticsVars, bot>>

SummaryReturn ==
    /\ pc = "summary"
    /\ sorted = <<>>
    /\ summary' = [i \in 1..Len(sPositions) |-> SummaryEntry(sPositions[i])]
    /\ pc' = "history"
    /\ sorted' = SortTrades(trades)
    /\ hPositions' = <<>>
    /\ history' = <<>>
    /\ UNCHANGED <<trades, sPositions>>
    /\ UNCHANGED <<collectVars, cancelVars, analyticsVars, bot>>

HistoryStep ==
    /\ pc = "history"
    /\ sorted # <<>>
    /\ LET entry == HistoryApply(hPositions, Head(sorted))
       IN  /\ history' = Append(history, entry)
           /\ hPositions' = MapSet(hPositions, HistoryPosition(entry))
    /\ sorted' = Tail(sorted)
    /\ UNCHANGED <<pc, trades, sPositions, summary>>
    /\ UNCHANGED <<collectVars, cancelVars, analyticsVars, bot>>

HistoryReturn ==
    /\ pc = "history"
    /\ sorted = <<>>
    /\ pc' = "done"
    /\ UNCHANGED <<trades, sorted, sPositions, summary, hPositions, history>>
    /\ UNCHANGED <<collectVars, cancelVars, analyticsVars, bot>>

ReplayNext ==
    \/ SummaryBegin
    \/ SummaryStep
    \/ SummaryReturn
    \/ HistoryStep
    \/ HistoryReturn

SpecReplay == ReplayInit /\ [][ReplayNext]_vars

-----------------------------------------------------------------------------
(* Properties of the replay *)

RECURSIVE SumRealized(_, _)
\* the sum of the per-event realized deltas of the history entries of `key`
SumRealized(entries, key) ==
    IF entries = <<>> THEN Zero
    ELSE LET rest == SumRealized(Tail(entries), key)
         IN  IF Head(entries).key = key THEN RAdd(Head(entries).realizedPnl, rest)
             ELSE rest

\* the trade the running loop visits next, as both loops resolve it
NextTrade == Head(sorted)
NextIsSell == normalizeSide(NextTrade.side) = "sell"
NextSize == ResolveSize(NextTrade)
NextUsdc == parseNumber(NextTrade.usdcSize)
NextKey == getPositionKey(NextTrade)

\* the position of the next trade's instrument before the trade is applied
SummaryBefore ==
    IF MapHas(sPositions, NextKey) THEN MapGet(sPositions, NextKey)
    ELSE SummaryDefault(NextKey)
HistoryBefore ==
    IF MapHas(hPositions, NextKey) THEN MapGet(hPositions, NextKey)
    ELSE HistoryDefault(NextKey)

\* C1: after every processed event the open size of every instrument is >= 0, in
\* the history entries (positionSize), in the position state of the summary
\* replay and in the summary entries (openSize).
C1_OpenSizeNonNegative ==
    /\ \A i \in 1..Len(history) : RLe(Zero, history[i].positionSize)
    /\ \A i \in 1..Len(hPositions) : RLe(Zero, hPositions[i].size)
    /\ \A i \in 1..Len(sPositions) : RLe(Zero, sPositions[i].openSize)
    /\ \A i \in 1..Len(summary) : RLe(Zero, summary[i].openSize)

\* C2: after every processed event, an instrument whose open size is 0 has cost
\* basis 0, in the history replay and in the summary replay.
C2_ZeroSizeZeroCost ==
    /\ \A i \in 1..Len(history) :
          RIsZero(history[i].positionSize) => RIsZero(history[i].positionCostBasis)
    /\ \A i \in 1..Len(hPositions) :
          RIsZero(hPositions[i].size) => RIsZero(hPositions[i].costBasisUsd)
    /\ \A i \in 1..Len(sPositions) :
          RIsZero(sPositions[i].openSize) => RIsZero(sPositions[i].costBasisUsd)

\* C3: for every instrument key, the realized deltas of the key's history entries
\* add up to the realizedPnl of the key's summary entry.
C3_HistorySumsToSummary ==
    pc = "done" =>
        \A i \in 1..Len(summary) :
            SumRealized(history, summary[i].key) = summary[i].realizedPnl

\* a sell of size s against an open size q >= s > 0
MatchedSell(q) == NextIsSell /\ RPos(NextSize) /\ RLe(NextSize, q)

\* n - (c / q) * s
MatchedRealized(q, c) == RSub(NextUsdc, RMul(RDiv(c, q), NextSize))

\* c - (c / q) * s
MatchedCostLeft(q, c) == RSub(c, RMul(RDiv(c, q), NextSize))

C4_Step ==
    /\ (pc = "summary" /\ sorted # <<>> /\ MatchedSell(SummaryBefore.openSize)) =>
          LET q == SummaryBefore.openSize
              c == SummaryBefore.costBasisUsd
              after == MapGet(sPositions', NextKey)
          IN  /\ after.realizedPnl = RAdd(SummaryBefore.realizedPnl, MatchedRealized(q, c))
              /\ after.openSize = RSub(q, NextSize)
              /\ after.costBasisUsd = MatchedCostLeft(q, c)
              /\ SummaryEntry(after).status = "CLOSED" <=> RSub(q, NextSize) = Zero
    /\ (pc = "history" /\ sorted # <<>> /\ MatchedSell(HistoryBefore.size)) =>
          LET q == HistoryBefore.size
              c == HistoryBefore.costBasisUsd
              entry == history'[Len(history')]
          IN  /\ entry.realizedPnl = MatchedRealized(q, c)
              /\ entry.positionSize = RSub(q, NextSize)
              /\ entry.positionCostBasis = MatchedCostLeft(q, c)
              /\ entry.status = "CLOSED" <=> RSub(q, NextSize) = Zero
    /\ (pc' = "done" /\ trades = ScenarioA) =>
          /\ history'[2].realizedPnl = R(2)
          /\ history'[2].positionSize = Zero
          /\ history'[2].status = "CLOSED"
          /\ summary'[1].realizedPnl = R(2)
          /\ summary'[1].openSize = Zero
          /\ summary'[1].status = "CLOSED"
    /\ (pc' = "done" /\ trades = ScenarioB) =>
          /\ history'[2].realizedPnl = Rat(4, 5)
          /\ history'[2].positionSize = R(6)
          /\ history'[2].positionCostBasis = R(3)
          /\ history'[2].status = "OPEN"
          /\ summary'[1].realizedPnl = Rat(4, 5)
          /\ summary'[1].openSize = R(6)
          /\ summary'[1].status = "OPEN"

Oversell(q) == NextIsSell /\ RPos(q) /\ RLt(q, NextSize)

C5_Step ==
    /\ (pc = "summary" /\ sorted # <<>> /\ Oversell(SummaryBefore.openSize)) =>
          LET q == SummaryBefore.openSize
              c == SummaryBefore.costBasisUsd
              after == MapGet(sPositions', NextKey)
          IN  /\ after.realizedPnl =
                    RAdd(SummaryBefore.realizedPnl,
                         RSub(NextUsdc, RMul(RDiv(c, q), RMin(NextSize, q))))
              /\ after.openSize = Zero
              /\ after.costBasisUsd = Zero
    /\ (pc = "history" /\ sorted # <<>> /\ Oversell(HistoryBefore.size)) =>
          LET q == HistoryBefore.size
              c == HistoryBefore.costBasisUsd
              entry == history'[Len(history')]
          IN  /\ entry.realizedPnl = RSub(NextUsdc, RMul(RDiv(c, q), RMin(NextSize, q)))
              /\ entry.positionSize = Zero
              /\ entry.positionCostBasis = Zero

\* C5: a sell larger than the open size realizes notional - avgCost *
\* min(tradeSize, openSize) and leaves open size 0 and cost basis 0.
C5_OversellRealizesMatchedPart == [][C5_Step]_vars

-----------------------------------------------------------------------------
(* Activity collection: configuration and upstream feed *)

\* null / undefined of a timestamp, an offset or a cursor
Null == -1

Min(a, b) == IF a < b THEN a ELSE b
Max(a, b) == IF a > b THEN a ELSE b

\* server configuration (defaults of the environment variables)
ACTIVITY_REQUEST_LIMIT == 500
ACTIVITY_RANGE_MAX_EVENTS == 5000
LIFETIME_BATCH_SIZE == 500
LIFETIME_MAX_EVENTS == 100000
\* /api/activity: the limit of a request that names none
DefaultLimit == 20
\* /api/trader/profile: the limit of a request that names none
DefaultProfileLimit == 5000
\* fetchActivityByUserWithRange: pages in a row that may contribute nothing
MAX_CONSECUTIVE_EMPTY == 25

\* dashboard constants
EXPORT_BATCH_SIZE == 500
EXPORT_MAX_TRADES == 100000
\* handleRangeExport: page size asked of /api/activity, pages allowed per run,
\* and the row cap used when the "max rows" field is left empty
requestCap == 500
SafetyStop == 2000
DefaultMaxRows == 5000

\* toLowerCase on the letters the model's texts use; texts are tuples of characters
LowerChar(c) ==
    CASE c = "B" -> "b"
      [] c = "E" -> "e"
      [] c = "T" -> "t"
      [] OTHER -> c

toLowerCase(text) == [i \in 1..Len(text) |-> LowerChar(text[i])]

RECURSIVE trimStart(_)
trimStart(text) ==
    IF text # <<>> /\ Head(text) = " " THEN trimStart(Tail(text)) ELSE text

RECURSIVE trimEnd(_)
trimEnd(text) ==
    IF text # <<>> /\ text[Len(text)] = " "
    THEN trimEnd(SubSeq(text, 1, Len(text) - 1))
    ELSE text

trim(text) == trimEnd(trimStart(text))

\* String.prototype.includes
includes(haystack, needle) ==
    \E i \in 0..(Len(haystack) - Len(needle)) :
        SubSeq(haystack, i + 1, i + Len(needle)) = needle

\* A raw record of the upstream feed.  uid stands for the fields the model does
\* not carry (asset, side, size, price): two records with different uid are
\* different trades.  An absent id or transactionHash is the empty string.
Item(uid, id, transactionHash, timestamp, slug) ==
    [uid |-> uid, id |-> id, transactionHash |-> transactionHash,
     timestamp |-> timestamp, slug |-> slug, eventSlug |-> <<>>, title |-> <<>>,
     usdcSize |-> uid]

\* a record that carries only its transaction hash
HashItem(uid, timestamp, slug) == Item(uid, "", "0x" \o ToString(uid), timestamp, slug)

\* a record that also carries the slug of its event and a title
TitledItem(uid, timestamp, slug, eventSlug, title) ==
    [HashItem(uid, timestamp, slug) EXCEPT !.eventSlug = eventSlug, !.title = title]

\* timestamps (seconds) of the records of the small feeds
FeedTimestamps == {1, 2, 3}

\* The records of the small feeds.  A keyed record carries id and transactionHash
\* when its uid is odd and only transactionHash when it is even; a record that
\* is not keyed carries neither.  Records with odd uid have slug "bt", the
\* others "Et".
SmallItem(uid, keyed, timestamp) ==
    Item(uid,
         IF keyed /\ uid % 2 = 1 THEN "id" \o ToString(uid) ELSE "",
         IF keyed THEN "0x" \o ToString(uid) ELSE "",
         timestamp,
         IF uid % 2 = 1 THEN <<"b", "t">> ELSE <<"E", "t">>)

\* longest small feed, and records upstream may add during a run
MaxFeed == 3
MaxGrow == 1
\* runs that may follow the first one, each resuming from the boundary
MaxResumes == 1

\* a feed is newest first; uid counts from the oldest record, so that a record
\* keeps its uid when newer records are put in front of it
FeedOf(shape) ==
    [i \in 1..Len(shape) |-> SmallItem(Len(shape) + 1 - i, shape[i][1], shape[i][2])]

\* a feed as the model keeps it: listed record by record, or generated by a rule
ListedFeed(items) == [rule |-> "listed", items |-> items, length |-> Len(items)]

GeneratedFeed(rule, length) == [rule |-> rule, items |-> <<>>, length |-> length]

SmallFeeds ==
    {ListedFeed(FeedOf(shape)) :
        shape \in {s \in UNION {[1..n -> BOOLEAN \X FeedTimestamps] : n \in 0..MaxFeed} :
                      \A i \in 1..(Len(s) - 1) : s[i][2] >= s[i + 1][2]}}

\* Scenario C: 1120 records, three pages of 500, 500 and 120 at page limit 500
ScenarioCFeed == GeneratedFeed("scenario-c", 1120)

\* a long feed in which every 25th record matches the slug filter "bt"
SparseFeed == GeneratedFeed("sparse", 2700)

\* a long feed of one trade per second
SteadyFeed == GeneratedFeed("steady", 2100)

\* 25 records newer than the range of the request, then two records inside it
DeepFeed == GeneratedFeed("deep", 27)

\* more records than one page of the full export holds
TwoPageFeed == GeneratedFeed("scenario-c", 600)

\* records with an event slug and a title
TitledFeed ==
    ListedFeed(<<TitledItem(3, 3, <<"b", "t">>, <<"e", "t">>, <<>>),
                 TitledItem(2, 2, <<"e", "t">>, <<>>, <<"B", "t", " ", "e">>),
                 TitledItem(1, 1, <<"e", "t">>, <<"b", "t">>, <<>>)>>)

FeedLen(f) == f.length

\* the i-th newest record of a feed
FeedItem(f, i) ==
    CASE f.rule = "listed" -> f.items[i]
      [] f.rule = "scenario-c" -> HashItem(f.length + 1 - i, 2, <<"b", "t">>)
      [] f.rule = "sparse" ->
            HashItem(f.length + 1 - i, 2,
                     IF i % 25 = 0 THEN <<"b", "t">> ELSE <<"e", "t">>)
      [] f.rule = "steady" -> HashItem(f.length + 1 - i, f.length + 1 - i, <<"b", "t">>)
      [] f.rule = "deep" ->
            HashItem(f.length + 1 - i, IF i <= 25 THEN 3 ELSE 2, <<"b", "t">>)

FeedItems(f) == [i \in 1..FeedLen(f) |-> FeedItem(f, i)]

\* data-api.polymarket.com/activity?limit=..&offset=..: a window of the feed;
\* an upstream that misbehaves ("repeat") answers every request with its first page
UpstreamOffsetPage(f, behaviour, offset, limit) ==
    LET first == IF behaviour = "repeat" THEN 0 ELSE offset
        size == Max(Min(limit, FeedLen(f) - first), 0)
    IN  [k \in 1..size |-> FeedItem(f, first + k)]

\* data-api.polymarket.com/activity?limit=..&start=..&end=..: the newest records
\* with start <= timestamp <= end (both bounds inclusive)
UpstreamCursorPage(f, behaviour, start, end, limit) ==
    LET InWindow(item) ==
            /\ start = Null \/ item.timestamp >= start
            /\ end = Null \/ item.timestamp <= end
        hits == IF behaviour = "repeat" THEN FeedItems(f)
                ELSE SelectSeq(FeedItems(f), InWindow)
    IN  SubSeq(hits, 1, Min(limit, Len(hits)))

-----------------------------------------------------------------------------
(* Activity collection: helpers of the server and of the dashboard *)

\* getActivityTimestampSeconds: null for a missing or zero timestamp
getActivityTimestampSeconds(item) ==
    IF item.timestamp = Null \/ item.timestamp = 0 THEN Null
    ELSE normalizeTimestampSeconds(item.timestamp)

\* getOldestTimestampSeconds: the smallest timestamp of the page, null if none
getOldestTimestampSeconds(items) ==
    LET stamps == {getActivityTimestampSeconds(items[i]) : i \in 1..Len(items)} \ {Null}
    IN  IF stamps = {} THEN Null ELSE CHOOSE t \in stamps : \A u \in stamps : t <= u

isTimestampInRange(timestamp, startTs, endTs) ==
    /\ timestamp # Null
    /\ ~(startTs # Null /\ timestamp < startTs)
    /\ ~(endTs # Null /\ timestamp > endTs)

\* `${item.slug || ''} ${item.eventSlug || ''} ${item.title || ''}`.toLowerCase()
haystack(item) ==
    toLowerCase(item.slug \o <<" ">> \o item.eventSlug \o <<" ">> \o item.title)

\* the filter callback of both server loops; slugFilter is trimmed and lower-cased
ActivityFilter(item, slugFilter, startTs, endTs) ==
    /\ isTimestampInRange(getActivityTimestampSeconds(item), startTs, endTs)
    /\ slugFilter # <<>> => includes(haystack(item), slugFilter)

\* mapActivityItem: id falls back to the transaction hash, then to the timestamp
mapActivityItem(item) ==
    [uid |-> item.uid,
     id |-> IF item.id # "" THEN item.id
            ELSE IF item.transactionHash # "" THEN item.transactionHash
            ELSE IF item.timestamp # Null THEN ToString(item.timestamp)
            ELSE "undefined",
     userAddress |-> "0xuser",
     title |-> IF item.title # <<>> THEN item.title ELSE item.slug,
     slug |-> item.slug,
     eventSlug |-> item.eventSlug,
     usdcSize |-> item.usdcSize,
     timestamp |-> item.timestamp,
     transactionHash |-> item.transactionHash]

MapItems(items) == [i \in 1..Len(items) |-> mapActivityItem(items[i])]

\* getTradeKey (dashboard): id, else transactionHash, else the composite key
getTradeKey(trade) ==
    IF trade.id # "" THEN trade.id
    ELSE IF trade.transactionHash # "" THEN trade.transactionHash
    ELSE trade.userAddress \o "-" \o ToString(trade.timestamp) \o "-"
            \o ToString(trade.usdcSize)

\* normalizeTimestampSeconds of the dashboard: 0 for a missing timestamp
ClientTimestampSeconds(timestamp) ==
    IF timestamp = Null \/ timestamp = 0 THEN 0
    ELSE normalizeTimestampSeconds(timestamp)

\* batch.filter with the seenIds set: the records whose key was not seen before
\* (in an earlier page or earlier in this page), the set afterwards, and the
\* number of records dropped
FilterFresh(batch, seenIds) ==
    LET IsFresh(i) ==
            /\ getTradeKey(batch[i]) \notin seenIds
            /\ \A j \in 1..(i - 1) : getTradeKey(batch[j]) # getTradeKey(batch[i])
        kept == SelectSeq([i \in 1..Len(batch) |-> i], IsFresh)
    IN  [fresh |-> [k \in 1..Len(kept) |-> batch[kept[k]]],
         seenIds |-> seenIds \cup {getTradeKey(batch[i]) : i \in 1..Len(batch)},
         dropped |-> Len(batch) - Len(kept)]

-----------------------------------------------------------------------------
(* Activity collection: one request and the loops that serve it *)

\* mode "offset": GET /api/activity with a range (fetchActivityByUserWithRange);
\* mode "cursor": handleRangeExport over GET /api/activity?cursor=1;
\* mode "export": handleFullExport over GET /api/activity without a range;
\* mode "lifetime": GET /api/wallet-lifetime
Call(mode, limit, slug, offset, startTs, endTs, resumeCursor, resumeKeys) ==
    [mode |-> mode, limit |-> limit, slug |-> slug, offset |-> offset,
     startTs |-> startTs, endTs |-> endTs,
     resumeCursor |-> resumeCursor, resumeKeys |-> resumeKeys]

\* the locals of the loop before its first iteration
NewRun(c) ==
    [trades |-> <<>>,
     offset |-> c.offset,
     exhausted |-> FALSE,
     stopReason |-> "",
     consecutiveEmpty |-> 0,
     seenIds |-> {c.resumeKeys[i] : i \in 1..Len(c.resumeKeys)},
     duplicateCount |-> 0,
     cursorEnd |-> IF c.resumeCursor # Null THEN c.resumeCursor ELSE c.endTs,
     safety |-> 0,
     pages |-> 0,
     lastBoundaryKeys |-> c.resumeKeys,
     truncated |-> FALSE,
     warning |-> "",
     error |-> "",
     resumeCursor |-> Null,
     resumeKeys |-> <<>>,
     cancelled |-> FALSE,
     fault |-> "",
     done |-> FALSE]

\* the limit /api/activity hands to the fetch functions
RouteLimit(limitRaw, startTs, endTs) ==
    LET hasRange == startTs # Null \/ endTs # Null
        limitCap == IF hasRange THEN ACTIVITY_RANGE_MAX_EVENTS ELSE ACTIVITY_REQUEST_LIMIT
    IN  IF limitRaw = Null THEN DefaultLimit ELSE Min(Max(limitRaw, 1), limitCap)

\* fetchActivityByUserWithRange: maxEvents and the page size of the next request
RangeMaxEvents(c) ==
    Min(Max(RouteLimit(c.limit, c.startTs, c.endTs), 1), ACTIVITY_RANGE_MAX_EVENTS)

RangeBatchLimit(r, c, batch) == Min(batch, RangeMaxEvents(c) - Len(r.trades))

\* the stop checks without the one for a page shorter than requested
RangeStopReason_IgnoreShortPage(data, batchLimit, consecutiveEmpty, startTs) ==
    IF consecutiveEmpty >= MAX_CONSECUTIVE_EMPTY THEN "empty_window"
    ELSE IF /\ startTs # Null
            /\ getOldestTimestampSeconds(data) # Null
            /\ getOldestTimestampSeconds(data) < startTs
         THEN "past_start"
    ELSE ""

\* the stop checks at the end of an iteration of fetchActivityByUserWithRange
RangeStopReason(data, batchLimit, consecutiveEmpty, startTs) ==
    IF Len(data) < batchLimit THEN "end"
    ELSE IF consecutiveEmpty >= MAX_CONSECUTIVE_EMPTY THEN "empty_window"
    ELSE IF /\ startTs # Null
            /\ getOldestTimestampSeconds(data) # Null
            /\ getOldestTimestampSeconds(data) < startTs
         THEN "past_start"
    ELSE ""

\* one iteration of the while loop of fetchActivityByUserWithRange on the page
\* `data`, followed by the test of the loop condition
RangeIteration(r, c, batch, data) ==
    IF data = <<>>
    THEN [r EXCEPT !.exhausted = TRUE, !.stopReason = "empty", !.done = TRUE]
    ELSE LET maxEvents == RangeMaxEvents(c)
             batchLimit == RangeBatchLimit(r, c, batch)
             slugFilter == toLowerCase(trim(c.slug))
             Keep(item) == ActivityFilter(item, slugFilter, c.startTs, c.endTs)
             filtered == SelectSeq(data, Keep)
             pushed == SubSeq(filtered, 1, Min(Len(filtered), maxEvents - Len(r.trades)))
             collected == r.trades \o MapItems(pushed)
             consecutiveEmpty == IF filtered = <<>> THEN r.consecutiveEmpty + 1 ELSE 0
             stop == RangeStopReason(data, batchLimit, consecutiveEmpty, c.startTs)
         IN  [r EXCEPT !.trades = collected,
                       !.consecutiveEmpty = consecutiveEmpty,
                       !.offset = @ + Len(data),
                       !.exhausted = stop # "",
                       !.stopReason = IF stop # "" THEN stop
                                      ELSE IF Len(collected) >= maxEvents THEN "limit"
                                      ELSE "",
                       !.done = stop # "" \/ Len(collected) >= maxEvents]

\* fetchActivityByUserWithCursor: page size of the upstream request
CursorBatchLimit(limit, batch) == Min(Max(limit, 1), batch)

\* fetchActivityByUserWithCursor: the oldest <= startTs test
CursorPastStart(oldest, startTs) == startTs # Null /\ oldest # Null /\ oldest <= startTs

\* fetchActivityByUserWithCursor on the upstream page `data`
CursorResponse(limit, slug, startTs, endTs, batch, data) ==
    IF data = <<>>
    THEN [trades |-> <<>>, nextEnd |-> Null, exhausted |-> TRUE, oldest |-> Null]
    ELSE LET batchLimit == CursorBatchLimit(limit, batch)
             oldest == getOldestTimestampSeconds(data)
             slugFilter == toLowerCase(trim(slug))
             Keep(item) == ActivityFilter(item, slugFilter, startTs, endTs)
         IN  [trades |-> MapItems(SelectSeq(data, Keep)),
              nextEnd |-> IF oldest # Null THEN Max(oldest, 0) ELSE Null,
              exhausted |-> \/ Len(data) < batchLimit
                            \/ oldest = Null
                            \/ CursorPastStart(oldest, startTs),
              oldest |-> oldest]

\* handleRangeExport: maxRows and the limit parameter of the next request
ExportMaxRows(c) == IF c.limit = Null THEN DefaultMaxRows ELSE c.limit

ExportRequestLimit(r, c) == Min(requestCap, ExportMaxRows(c) - Len(r.trades))

\* handleRangeExport after its loop: nothing collected is an error, otherwise a
\* run that is not exhausted leaves the resume cursor and the boundary keys
FinishRangeExport(r) ==
    IF r.trades = <<>>
    THEN [r EXCEPT !.done = TRUE,
                   !.error = IF r.cancelled
                             THEN "Export canceled before any trades were returned."
                             ELSE "No trades returned for this time range."]
    ELSE IF ~r.exhausted /\ r.cursorEnd # Null
    THEN [r EXCEPT !.done = TRUE,
                   !.resumeCursor = r.cursorEnd,
                   !.resumeKeys = r.lastBoundaryKeys]
    ELSE [r EXCEPT !.done = TRUE]

\* one iteration of the while loop of handleRangeExport on the response
\* `payload`, followed by the test of the loop condition
RangeExportIteration(r, c, payload) ==
    LET batch == payload.trades
        AtBoundary(trade) == ClientTimestampSeconds(trade.timestamp) = payload.oldest
        boundary == SelectSeq(batch, AtBoundary)
        lastBoundaryKeys ==
            IF payload.oldest # Null
            THEN [i \in 1..Len(boundary) |-> getTradeKey(boundary[i])]
            ELSE r.lastBoundaryKeys
        kept == FilterFresh(batch, r.seenIds)
        seen == [r EXCEPT !.lastBoundaryKeys = lastBoundaryKeys,
                          !.seenIds = kept.seenIds,
                          !.duplicateCount = @ + kept.dropped,
                          !.trades = @ \o kept.fresh]
        nextEnd == payload.nextEnd
    IN  IF nextEnd = Null
        THEN FinishRangeExport([seen EXCEPT !.exhausted = TRUE])
        ELSE IF r.cursorEnd # Null /\ nextEnd = r.cursorEnd /\ kept.fresh = <<>>
        THEN FinishRangeExport(
                 [seen EXCEPT !.warning = "Cursor stalled; exported available data."])
        ELSE LET moved == [seen EXCEPT !.cursorEnd = nextEnd,
                                       !.exhausted = payload.exhausted \/ batch = <<>>,
                                       !.safety = @ + 1]
             IN  IF moved.safety > SafetyStop
                 THEN FinishRangeExport(
                          [moved EXCEPT !.warning = "Pagination safety stop reached."])
                 ELSE IF moved.exhausted \/ Len(moved.trades) >= ExportMaxRows(c)
                 THEN FinishRangeExport([moved EXCEPT !.pages = @ + 1])
                 ELSE [moved EXCEPT !.pages = @ + 1]

\* handleRangeExport leaves its loop because rangeExportCancelRef is set: at the
\* top of an iteration, or in the catch of a request that was aborted
CancelRangeExport(r) ==
    FinishRangeExport([r EXCEPT !.cancelled = TRUE,
                                !.warning = "Export canceled by user."])

\* The ways a page request can fail.  fetchData either throws (the request could
\* not be made or answered) or hands back a body that is not an array of records
\* (the answer could not be read as a page).
Faults == {"throws", "not-array"}

\* fetchActivityByUserWithRange when fetchData fails: an exception leaves the
\* function and /api/activity answers 500 with the message alone; a body that is
\* not an array ends the loop like an empty page
RangeFault(r, fault) ==
    IF fault = "throws"
    THEN [r EXCEPT !.fault = fault, !.error = "fetch failed", !.done = TRUE]
    ELSE [r EXCEPT !.fault = fault, !.exhausted = TRUE, !.stopReason = "empty",
                   !.done = TRUE]

\* handleRangeExport when the page request fails: a failed fetch, a response
\* that is not ok (the 500 of a server whose fetchData threw) and a body that is
\* not JSON are thrown to the outer catch, which reports the message; a body
\* that is not an array makes fetchActivityByUserWithCursor answer like an
\* empty feed
RangeExportFault(r, c, fault) ==
    IF fault = "throws"
    THEN [r EXCEPT !.fault = fault, !.error = "Range export failed", !.done = TRUE]
    ELSE RangeExportIteration([r EXCEPT !.fault = fault], c,
             [trades |-> <<>>, nextEnd |-> Null, exhausted |-> TRUE, oldest |-> Null])

\* what the caller of a finished run holds: the response of /api/activity or
\* the workbook of the dashboard carries the records unless the run ended with
\* an error, which is reported alone
Delivered(r) == IF r.error # "" THEN <<>> ELSE r.trades

\* fetchActivityByUser on the upstream page `data`: no range, optional slug filter
ActivityByUser(slug, data) ==
    LET slugFilter == toLowerCase(trim(slug))
        Keep(item) == includes(haystack(item), slugFilter)
    IN  MapItems(IF slugFilter # <<>> THEN SelectSeq(data, Keep) ELSE data)

\* one iteration of the while (true) loop of handleFullExport on the page `batch`
FullExportIteration(r, batch) ==
    IF batch = <<>> THEN [r EXCEPT !.done = TRUE]
    ELSE LET kept == FilterFresh(batch, r.seenIds)
             collected == r.trades \o kept.fresh
         IN  IF kept.fresh = <<>>
             THEN [r EXCEPT !.seenIds = kept.seenIds,
                            !.warning = "Pagination returned duplicate results. Exported available trades.",
                            !.done = TRUE]
             ELSE [r EXCEPT !.seenIds = kept.seenIds,
                            !.trades = collected,
                            !.offset = @ + Len(batch),
                            !.truncated = /\ Len(batch) >= EXPORT_BATCH_SIZE
                                          /\ Len(collected) >= EXPORT_MAX_TRADES,
                            !.done = \/ Len(batch) < EXPORT_BATCH_SIZE
                                     \/ Len(collected) >= EXPORT_MAX_TRADES]

\* one iteration of the while (true) loop of /api/wallet-lifetime on the raw
\* page `batch`
LifetimeIteration(r, batch) ==
    IF batch = <<>> THEN [r EXCEPT !.done = TRUE]
    ELSE LET allTrades == r.trades \o batch
         IN  [r EXCEPT !.trades = allTrades,
                       !.offset = @ + Len(batch),
                       !.truncated = /\ Len(batch) >= LIFETIME_BATCH_SIZE
                                     /\ Len(allTrades) >= LIFETIME_MAX_EVENTS,
                       !.done = \/ Len(batch) < LIFETIME_BATCH_SIZE
                                \/ Len(allTrades) >= LIFETIME_MAX_EVENTS]

\* the limit /api/trader/profile hands to the fetch functions
ProfileLimit(limitRaw) ==
    IF limitRaw = Null THEN DefaultProfileLimit
    ELSE Min(Max(limitRaw, 1), ACTIVITY_RANGE_MAX_EVENTS)

\* /api/trader/profile without a range: one call of fetchActivityByUser on the
\* upstream page `data`
ProfileFetch(r, limit, data) ==
    [r EXCEPT !.trades = ActivityByUser(<<>>, data),
              !.offset = limit,
              !.done = TRUE]

-----------------------------------------------------------------------------
(* Activity collection: requests, pages and resumes *)

\* row caps of the requests on the small feeds; Null leaves the field empty
Limits == {1, 3, Null}

\* startTs / endTs of the requests on the small feeds
Ranges == {<<Null, Null>>, <<2, Null>>, <<Null, 2>>, <<2, 2>>}

\* slug parameter of the requests: none, or " Bt" (trimmed and lower-cased to "bt")
SlugFilters == {<<>>, <<" ", "B", "t">>}

OffsetCalls ==
    {Call("offset", limit, slug, 0, range[1], range[2], Null, <<>>) :
        limit \in Limits, slug \in SlugFilters, range \in Ranges \ {<<Null, Null>>}}

\* handleRangeExport sends no slug parameter
CursorCalls ==
    {Call("cursor", limit, <<>>, 0, range[1], range[2], Null, <<>>) :
        limit \in Limits, range \in Ranges}

FullExportCall == Call("export", EXPORT_BATCH_SIZE, <<>>, 0, Null, Null, Null, <<>>)

LifetimeCall == Call("lifetime", LIFETIME_BATCH_SIZE, <<>>, 0, Null, Null, Null, <<>>)

\* GET /api/trader/profile without a range
ProfileCall(limit) == Call("profile", limit, <<>>, 0, Null, Null, Null, <<>>)

\* a deployment (ACTIVITY_RANGE_BATCH_SIZE), an upstream and a request
Configuration(items, batch, behaviour, c) ==
    [feed |-> items, batchSize |-> batch, upstream |-> behaviour, call |-> c]

\* every small feed behind a server with ACTIVITY_RANGE_BATCH_SIZE = 2
SmallConfigurations ==
    {Configuration(items, 2, "static", c) :
        items \in SmallFeeds,
        c \in OffsetCalls \cup CursorCalls \cup {FullExportCall, LifetimeCall}}

\* an upstream that answers every request with the same page
RepeatConfigurations ==
    {Configuration(ListedFeed(FeedOf(<<<<TRUE, 3>>, <<TRUE, 2>>, <<TRUE, 1>>>>)),
                   2, "repeat", c) :
        c \in {Call("offset", Null, <<>>, 0, 2, Null, Null, <<>>),
               Call("offset", Null, <<>>, 0, Null, 1, Null, <<>>),
               Call("cursor", Null, <<>>, 0, Null, Null, Null, <<>>),
               Call("cursor", Null, <<>>, 0, Null, 3, Null, <<>>)}}

\* Scenario C behind the default page size of 500
ScenarioCConfigurations ==
    {Configuration(ScenarioCFeed, 500, "static", c) :
        c \in {Call("offset", 5000, <<>>, 0, 1, Null, Null, <<>>),
               Call("cursor", Null, <<>>, 0, 1, Null, Null, <<>>),
               FullExportCall, LifetimeCall}}

\* a range that begins 25 pages deep in the feed, behind a server with
\* ACTIVITY_RANGE_BATCH_SIZE = 1
DeepConfigurations ==
    {Configuration(DeepFeed, 1, "static",
                   Call("offset", Null, <<>>, 0, Null, 2, Null, <<>>))}

\* a full export behind an upstream that answers every request with the same
\* page
RepeatedExportConfigurations ==
    {Configuration(TwoPageFeed, 500, "repeat", FullExportCall)}

\* a search for "T E" (lower-cased to "t e") over records with event slugs and
\* titles
TitledConfigurations ==
    {Configuration(TitledFeed, 2, "static",
                   Call("offset", Null, <<"T", " ", "E">>, 0, 1, Null, Null, <<>>))}

\* trader profiles over every small feed
ProfileConfigurations ==
    {Configuration(items, 2, "static", ProfileCall(limit)) :
        items \in SmallFeeds, limit \in Limits}

Configurations ==
    SmallConfigurations \cup RepeatConfigurations \cup ProfileConfigurations
        \cup ScenarioCConfigurations \cup DeepConfigurations
        \cup RepeatedExportConfigurations \cup TitledConfigurations

\* a page request as upstream (or, for the dashboard loops, the server) sees it,
\* with the number of records it was answered with
Request(offset, end, limit, size) ==
    [offset |-> offset, end |-> end, limit |-> limit, size |-> size]

\* the log keeps the number of requests of the run and the last two of them
NoRequests == [count |-> 0, recent |-> <<>>]

Logged(l, request) ==
    [count |-> l.count + 1,
     recent |-> IF l.recent = <<>> THEN <<request>>
                ELSE <<l.recent[Len(l.recent)], request>>]

\* the request handleRangeExport has sent and not yet seen answered
Flight(limit, end) == [active |-> TRUE, aborted |-> FALSE, limit |-> limit, end |-> end]

NoFlight == [active |-> FALSE, aborted |-> FALSE, limit |-> 0, end |-> Null]

\* nothing requested yet, and no replay running
CollectIdle ==
    /\ grown = 0
    /\ flight = NoFlight
    /\ cancelRef = FALSE
    /\ bot = BotAtLoad
    /\ activities = <<>>
    /\ analytics = <<>>
    /\ log = NoRequests
    /\ earlier = <<>>
    /\ pc = "idle"
    /\ trades = <<>>
    /\ sorted = <<>>
    /\ sPositions = <<>>
    /\ summary = <<>>
    /\ hPositions = <<>>
    /\ history = <<>>

CollectInit ==
    /\ \E cfg \in Configurations :
          /\ feed = cfg.feed
          /\ batchSize = cfg.batchSize
          /\ upstream = cfg.upstream
          /\ call = cfg.call
          /\ run = NewRun(cfg.call)
    /\ CollectIdle

\* GET /api/activity with a range: one page of fetchActivityByUserWithRange
RangePage ==
    /\ call.mode = "offset"
    /\ ~run.done
    /\ LET batchLimit == RangeBatchLimit(run, call, batchSize)
           data == UpstreamOffsetPage(feed, upstream, run.offset, batchLimit)
       IN  /\ run' = RangeIteration(run, call, batchSize, data)
           /\ log' = Logged(log, Request(run.offset, Null, batchLimit, Len(data)))
    /\ UNCHANGED <<feed, grown, batchSize, upstream, call, earlier, replayVars,
                 cancelVars, analyticsVars, bot>>

\* handleRangeExport: one page, served by fetchActivityByUserWithCursor
RangeExportPage ==
    /\ call.mode = "cursor"
    /\ ~run.done
    /\ LET limit == RouteLimit(ExportRequestLimit(run, call), call.startTs, run.cursorEnd)
           batchLimit == CursorBatchLimit(limit, batchSize)
           data == UpstreamCursorPage(feed, upstream, call.startTs, run.cursorEnd,
                                      batchLimit)
           payload == CursorResponse(limit, <<>>, call.startTs, run.cursorEnd,
                                     batchSize, data)
       IN  /\ run' = RangeExportIteration(run, call, payload)
           /\ log' = Logged(log, Request(Null, run.cursorEnd, batchLimit, Len(data)))
    /\ UNCHANGED <<feed, grown, batchSize, upstream, call, earlier, replayVars,
                 cancelVars, analyticsVars, bot>>

\* handleFullExport: one page, served by fetchActivityByUser
FullExportPage ==
    /\ call.mode = "export"
    /\ ~run.done
    /\ LET limit == RouteLimit(EXPORT_BATCH_SIZE, Null, Null)
           data == UpstreamOffsetPage(feed, upstream, run.offset, limit)
       IN  /\ run' = FullExportIteration(run, ActivityByUser(call.slug, data))
           /\ log' = Logged(log, Request(run.offset, Null, EXPORT_BATCH_SIZE, Len(data)))
    /\ UNCHANGED <<feed, grown, batchSize, upstream, call, earlier, replayVars,
                 cancelVars, analyticsVars, bot>>

\* /api/wallet-lifetime: one page, served by fetchActivityRawByUser
LifetimePage ==
    /\ call.mode = "lifetime"
    /\ ~run.done
    /\ LET data == UpstreamOffsetPage(feed, upstream, run.offset, LIFETIME_BATCH_SIZE)
       IN  /\ run' = LifetimeIteration(run, data)
           /\ log' = Logged(log, Request(run.offset, Null, LIFETIME_BATCH_SIZE, Len(data)))
    /\ UNCHANGED <<feed, grown, batchSize, upstream, call, earlier, replayVars,
                 cancelVars, analyticsVars, bot>>

\* /api/trader/profile without a range: the one request of fetchActivityByUser
TraderProfileFetch ==
    /\ call.mode = "profile"
    /\ ~run.done
    /\ LET limit == ProfileLimit(call.limit)
           data == UpstreamOffsetPage(feed, upstream, 0, limit)
       IN  /\ run' = ProfileFetch(run, limit, data)
           /\ log' = Logged(log, Request(0, Null, limit, Len(data)))
    /\ UNCHANGED <<feed, grown, batchSize, upstream, call, earlier, replayVars,
                 cancelVars, analyticsVars, bot>>

\* upstream records a new trade between two pages of a run
FeedGrow ==
    /\ ~run.done
    /\ log.count > 0
    /\ grown < MaxGrow
    /\ feed.rule = "listed"
    /\ \E timestamp \in FeedTimestamps :
          /\ feed.items # <<>> => timestamp >= feed.items[1].timestamp
          /\ feed' = ListedFeed(<<SmallItem(FeedLen(feed) + 1, TRUE, timestamp)>>
                                    \o feed.items)
    /\ grown' = grown + 1
    /\ UNCHANGED <<batchSize, upstream, call, run, log, earlier, replayVars,
                 cancelVars, analyticsVars, bot>>

\* a caller of /api/activity continues at the nextOffset of a run that was not
\* exhausted
ResumeOffset ==
    /\ call.mode = "offset"
    /\ run.done
    /\ ~run.exhausted
    /\ Len(earlier) < MaxResumes
    /\ \E limit \in Limits :
          /\ call' = [call EXCEPT !.offset = run.offset, !.limit = limit]
          /\ run' = NewRun(call')
    /\ earlier' = Append(earlier, [call |-> call, run |-> run, pages |-> log.count])
    /\ log' = NoRequests
    /\ UNCHANGED <<feed, grown, batchSize, upstream, replayVars,
                 cancelVars, analyticsVars, bot>>

\* handleRangeExportResume: continue at the resume cursor with the boundary keys;
\* the "max rows" field may have been edited in between
handleRangeExportResume ==
    /\ call.mode = "cursor"
    /\ run.done
    /\ run.resumeCursor # Null
    /\ Len(earlier) < MaxResumes
    /\ \E limit \in Limits :
          /\ call' = [call EXCEPT !.endTs = run.resumeCursor,
                                  !.limit = limit,
                                  !.resumeCursor = run.resumeCursor,
                                  !.resumeKeys = run.resumeKeys]
          /\ run' = NewRun(call')
    /\ earlier' = Append(earlier, [call |-> call, run |-> run, pages |-> log.count])
    /\ log' = NoRequests
    /\ UNCHANGED <<feed, grown, batchSize, upstream, replayVars,
                 cancelVars, analyticsVars, bot>>

CollectNext ==
    \/ RangePage
    \/ RangeExportPage
    \/ FullExportPage
    \/ LifetimePage
    \/ TraderProfileFetch
    \/ FeedGrow
    \/ ResumeOffset
    \/ handleRangeExportResume

SpecCollect == CollectInit /\ [][CollectNext]_vars

-----------------------------------------------------------------------------
(* Properties of the collection *)

NoDuplicateKeys(ts) ==
    \A i, j \in 1..Len(ts) : i < j => getTradeKey(ts[i]) # getTradeKey(ts[j])

Uids(ts) == {ts[i].uid : i \in 1..Len(ts)}

\* the row cap of a request
RowCap(c) == IF c.mode = "offset" THEN RangeMaxEvents(c) ELSE ExportMaxRows(c)

\* the record is inside the range of the request and matches its slug filter
WantedBy(c, item) ==
    ActivityFilter(item, toLowerCase(trim(c.slug)), c.startTs, c.endTs)

\* a range collection in offset or cursor mode over a feed that behaves and
\* has not changed since the run began
StaticFeed ==
    /\ call.mode \in {"offset", "cursor"}
    /\ upstream = "static"
    /\ grown = 0

\* every record of the feed carries an id or a transaction hash, so that
\* different records have different dedup keys
KeyedFeed ==
    \A i \in 1..FeedLen(feed) :
        FeedItem(feed, i).id # "" \/ FeedItem(feed, i).transactionHash # ""

\* C6: the events collected by a run in offset mode or in cursor mode never
\* hold two records with the same dedup key, whatever pages upstream delivers
\* (the feed may grow between two pages, a page may come twice).  Stated for
\* feeds whose records all carry a key of their own, where two equal keys in
\* the result are one record collected twice.
C6_NoDuplicateKeys ==
    (call.mode \in {"offset", "cursor"} /\ KeyedFeed) => NoDuplicateKeys(run.trades)

\* C7: a first run that ends with exhausted = true over an unchanged feed has
\* collected every record of the feed that lies in [startTs, endTs] and matches
\* the slug filter, in offset mode and in cursor mode.  Stated for feeds whose
\* records all carry a key of their own.
C7_ExhaustedMeansComplete ==
    (StaticFeed /\ KeyedFeed /\ earlier = <<>> /\ run.done /\ run.exhausted) =>
        \A i \in 1..FeedLen(feed) :
            WantedBy(call, FeedItem(feed, i)) => FeedItem(feed, i).uid \in Uids(run.trades)

\* the latest page request of the run
LastRequest == log.recent[Len(log.recent)]

\* C8: in offset mode (fetchActivityByUserWithRange and handleFullExport) every
\* page is requested at a larger offset than the page before it; a page that is
\* followed by another page was full; a page that is empty or shorter than
\* requested ends the run, with exhausted = true on the server and without the
\* truncated flag in the full export; and the feed of Scenario C at page limit
\* 500 is collected in exactly three pages that deliver its 1120 records.
C8_OffsetStopsAtShortPage ==
    call.mode \in {"offset", "export"} =>
        /\ Len(log.recent) = 2 =>
              /\ log.recent[1].offset < log.recent[2].offset
              /\ log.recent[1].size = log.recent[1].limit
              /\ log.recent[1].size > 0
        /\ (log.count > 0 /\ LastRequest.size < LastRequest.limit) =>
              /\ run.done
              /\ call.mode = "offset" => run.exhausted
              /\ call.mode = "export" => ~run.truncated
        /\ (feed = ScenarioCFeed /\ run.done) =>
              /\ log.count = 3
              /\ Len(run.trades) = 1120
              /\ Cardinality(Uids(run.trades)) = 1120
              /\ call.mode = "offset" => run.exhausted

\* Scenario C has been collected in offset mode: the third page held 120 records
C8_Witness ==
    /\ call.mode = "offset"
    /\ feed = ScenarioCFeed
    /\ run.done
    /\ log.count = 3
    /\ LastRequest = Request(1000, Null, 500, 120)

RECURSIVE RangeRun(_, _, _, _, _)
\* fetchActivityByUserWithRange run to its end on an unchanging feed
RangeRun(r, c, batch, f, behaviour) ==
    IF r.done THEN r
    ELSE RangeRun(
             RangeIteration(r, c, batch,
                 UpstreamOffsetPage(f, behaviour, r.offset, RangeBatchLimit(r, c, batch))),
             c, batch, f, behaviour)

RECURSIVE RangeExportRun(_, _, _, _, _)
\* handleRangeExport run to its end on an unchanging feed
RangeExportRun(r, c, batch, f, behaviour) ==
    IF r.done THEN r
    ELSE LET limit == RouteLimit(ExportRequestLimit(r, c), c.startTs, r.cursorEnd)
             data == UpstreamCursorPage(f, behaviour, c.startTs, r.cursorEnd,
                                        CursorBatchLimit(limit, batch))
             payload == CursorResponse(limit, <<>>, c.startTs, r.cursorEnd, batch, data)
         IN  RangeExportRun(RangeExportIteration(r, c, payload), c, batch, f, behaviour)

\* the same request without a row cap of its own: the server's ceiling in offset
\* mode, the empty "max rows" field in cursor mode
UncappedCall(c) ==
    [c EXCEPT !.limit = IF c.mode = "offset" THEN ACTIVITY_RANGE_MAX_EVENTS ELSE Null]

\* the events one uncapped run of the request collects from the feed
UncappedRun(c) ==
    IF c.mode = "offset"
    THEN RangeRun(NewRun(UncappedCall(c)), UncappedCall(c), batchSize, feed, upstream)
    ELSE RangeExportRun(NewRun(UncappedCall(c)), UncappedCall(c), batchSize, feed, upstream)

\* the run stopped at its row cap and said so
StoppedAtCap(r, c) == r.done /\ ~r.exhausted /\ Len(r.trades) >= RowCap(c)

RECURSIVE EarlierTrades(_)
EarlierTrades(runs) ==
    IF runs = <<>> THEN <<>> ELSE Head(runs).run.trades \o EarlierTrades(Tail(runs))

\* everything the earlier runs and this run have collected
AllTrades == EarlierTrades(earlier) \o run.trades

\* the request the first run served
FirstCall == IF earlier = <<>> THEN call ELSE earlier[1].call

\* the feed holds a wanted record that no run has delivered yet
Undelivered ==
    \E i \in 1..FeedLen(feed) :
        /\ WantedBy(FirstCall, FeedItem(feed, i))
        /\ FeedItem(feed, i).uid \notin Uids(AllTrades)

\* a run that reaches its row cap while wanted records are still undelivered
\* ends with exhausted = false and a boundary (the next offset, which the offset
\* run always returns, or the resume cursor)
CapLeavesBoundary ==
    (StaticFeed /\ KeyedFeed /\ run.done /\ Len(run.trades) >= RowCap(call)
        /\ Undelivered) =>
        /\ ~run.exhausted
        /\ call.mode = "cursor" => run.resumeCursor # Null

\* C9: over an unchanged feed, when a run has reached its row cap and returned
\* exhausted = false with a boundary, the run resumed from that boundary
\* delivers the rest: once it has ended without reaching a cap of its own, the
\* runs together hold exactly the records one uncapped run collects, each of
\* them once.  Stated for feeds whose records all carry a key of their own.
C9_ResumeDeliversRest ==
    (/\ StaticFeed
     /\ KeyedFeed
     /\ earlier # <<>>
     /\ \A i \in 1..Len(earlier) : StoppedAtCap(earlier[i].run, earlier[i].call)
     /\ run.done
     /\ Len(run.trades) < RowCap(call)) =>
        /\ Uids(AllTrades) = Uids(UncappedRun(FirstCall).trades)
        /\ Cardinality(Uids(AllTrades)) = Len(AllTrades)

\* C10: a hard cap on the number of page requests stops every run, in offset
\* mode and in cursor mode: no run requests more pages than the safety stop of
\* handleRangeExport allows (one page more than its 2000).
C10_PageCountCapped == log.count <= SafetyStop + 1

-----------------------------------------------------------------------------
(* Long runs: how many pages one run may request *)

\* the sparse feed behind a server with ACTIVITY_RANGE_BATCH_SIZE = 1, asked in
\* offset mode for 90 records of the slug "bt"; the steady feed behind a server
\* with ACTIVITY_RANGE_BATCH_SIZE = 2, exported in cursor mode
LongRunConfigurations ==
    {Configuration(SparseFeed, 1, "static",
                   Call("offset", 90, <<"b", "t">>, 0, 1, Null, Null, <<>>)),
     Configuration(SteadyFeed, 2, "static",
                   Call("cursor", Null, <<>>, 0, Null, Null, Null, <<>>))}

LongRunInit ==
    /\ \E cfg \in LongRunConfigurations :
          /\ feed = cfg.feed
          /\ batchSize = cfg.batchSize
          /\ upstream = cfg.upstream
          /\ call = cfg.call
          /\ run = NewRun(cfg.call)
    /\ CollectIdle

LongRunNext ==
    \/ RangePage
    \/ RangeExportPage
    \/ ResumeOffset
    \/ handleRangeExportResume

SpecLongRun == LongRunInit /\ [][LongRunNext]_vars

-----------------------------------------------------------------------------
(* Activity collection: failed requests and cancellation *)

\* range requests and range exports over the small feeds
InterruptConfigurations ==
    {cfg \in SmallConfigurations :
        cfg.call.mode \in {"offset", "cursor"} /\ cfg.call.slug = <<>>}

InterruptInit ==
    /\ \E cfg \in InterruptConfigurations :
          /\ feed = cfg.feed
          /\ batchSize = cfg.batchSize
          /\ upstream = cfg.upstream
          /\ call = cfg.call
          /\ run = NewRun(cfg.call)
    /\ CollectIdle

\* fetchActivityByUserWithRange: the request of the next page fails
RangePageFails ==
    /\ call.mode = "offset"
    /\ ~run.done
    /\ \E fault \in Faults : run' = RangeFault(run, fault)
    /\ log' = Logged(log, Request(run.offset, Null,
                                  RangeBatchLimit(run, call, batchSize), 0))
    /\ UNCHANGED <<feed, grown, batchSize, upstream, call, earlier, replayVars,
                   cancelVars, analyticsVars, bot>>

\* handleRangeExport from the top of an iteration to its await: the loop is left
\* when cancellation was requested, otherwise the next page is requested
RangeExportSend ==
    /\ call.mode = "cursor"
    /\ ~run.done
    /\ ~flight.active
    /\ IF cancelRef
       THEN /\ run' = CancelRangeExport(run)
            /\ cancelRef' = FALSE
            /\ UNCHANGED flight
       ELSE /\ flight' = Flight(ExportRequestLimit(run, call), run.cursorEnd)
            /\ UNCHANGED <<run, cancelRef>>
    /\ UNCHANGED <<feed, grown, batchSize, upstream, call, log, earlier, replayVars,
                   analyticsVars, bot>>

\* the response arrives: the rest of the iteration and the test of the loop
\* condition; the finally block clears the cancel flag when the run is over
RangeExportReceive ==
    /\ flight.active
    /\ ~flight.aborted
    /\ LET limit == RouteLimit(flight.limit, call.startTs, flight.end)
           batchLimit == CursorBatchLimit(limit, batchSize)
           data == UpstreamCursorPage(feed, upstream, call.startTs, flight.end,
                                      batchLimit)
           payload == CursorResponse(limit, <<>>, call.startTs, flight.end,
                                     batchSize, data)
       IN  /\ run' = RangeExportIteration(run, call, payload)
           /\ log' = Logged(log, Request(Null, flight.end, batchLimit, Len(data)))
    /\ flight' = NoFlight
    /\ cancelRef' = (cancelRef /\ ~run'.done)
    /\ UNCHANGED <<feed, grown, batchSize, upstream, call, earlier, replayVars,
                   analyticsVars, bot>>

\* the request fails instead
RangeExportFails ==
    /\ flight.active
    /\ ~flight.aborted
    /\ \E fault \in Faults : run' = RangeExportFault(run, call, fault)
    /\ log' = Logged(log, Request(Null, flight.end,
                                  CursorBatchLimit(RouteLimit(flight.limit, call.startTs,
                                                              flight.end), batchSize), 0))
    /\ flight' = NoFlight
    /\ cancelRef' = FALSE
    /\ UNCHANGED <<feed, grown, batchSize, upstream, call, earlier, replayVars,
                   analyticsVars, bot>>

\* handleRangeExportCancel while the export is loading: sets the flag and aborts
\* the request in flight.  With no request in flight the cancellation has come
\* after the response was read and before the loop went on.
handleRangeExportCancel ==
    /\ call.mode = "cursor"
    /\ ~run.done
    /\ flight.active \/ log.count > 0
    /\ ~cancelRef
    /\ cancelRef' = TRUE
    /\ flight' = IF flight.active THEN [flight EXCEPT !.aborted = TRUE] ELSE flight
    /\ UNCHANGED <<collectVars, replayVars, analyticsVars, bot>>

\* the aborted fetch rejects with an AbortError: the catch leaves the loop
RangeExportAborted ==
    /\ flight.active
    /\ flight.aborted
    /\ run' = CancelRangeExport(run)
    /\ log' = Logged(log, Request(Null, flight.end,
                                  CursorBatchLimit(RouteLimit(flight.limit, call.startTs,
                                                              flight.end), batchSize), 0))
    /\ flight' = NoFlight
    /\ cancelRef' = FALSE
    /\ UNCHANGED <<feed, grown, batchSize, upstream, call, earlier, replayVars,
                   analyticsVars, bot>>

InterruptNext ==
    \/ RangePage
    \/ RangePageFails
    \/ RangeExportSend
    \/ RangeExportReceive
    \/ RangeExportFails
    \/ handleRangeExportCancel
    \/ RangeExportAborted
    \/ handleRangeExportResume

SpecInterrupt == InterruptInit /\ [][InterruptNext]_vars

-----------------------------------------------------------------------------
(* Properties of failed requests and of cancellation *)

\* C13: when the request of a page fails, on the first page or on a later one,
\* the run is over at once, and the caller receives the error together with
\* all records collected from the pages before.
C13_FailureKeepsRecords ==
    run.fault # "" =>
        /\ run.done
        /\ run.error # ""
        /\ Delivered(run) = run.trades

\* C14: a cursor run that was cancelled, whenever the cancellation came (while
\* the first request was in flight, while a later one was, or between two
\* pages), ends with the records collected so far, exhausted = false and a
\* resume cursor.
C14_CancelKeepsRecords ==
    run.cancelled =>
        /\ run.done
        /\ run.error = ""
        /\ Delivered(run) = run.trades
        /\ ~run.exhausted
        /\ run.resumeCursor # Null

-----------------------------------------------------------------------------
(* Properties of the early stops *)

\* C11: the range collector counts the pages in a row that contributed no record
\* after filtering and stops for an empty window, with exhausted = true, only
\* when that count exceeds the threshold 25; until then the run goes on.
C11_EmptyWindowGuard ==
    call.mode = "offset" =>
        /\ run.consecutiveEmpty <= MAX_CONSECUTIVE_EMPTY + 1
        /\ run.stopReason = "empty_window" =>
              /\ run.exhausted
              /\ run.consecutiveEmpty > MAX_CONSECUTIVE_EMPTY

\* the warnings of the dashboard loops that end a run early
EarlyStopWarnings ==
    {"Cursor stalled; exported available data.",
     "Pagination safety stop reached.",
     "Pagination returned duplicate results. Exported available trades."}

\* the run was ended by the empty-window guard, by a cursor or an offset that
\* did not advance, or by the page-count cap
StoppedEarly ==
    /\ run.done
    /\ \/ run.stopReason = "empty_window"
       \/ run.warning \in EarlyStopWarnings

\* C12: a run that was stopped early by one of the non-fatal guards ends without
\* an error and as truncated: exhausted = false in range and cursor mode, the
\* truncated flag in the full export.
C12_EarlyStopsTruncated ==
    StoppedEarly =>
        /\ run.error = ""
        /\ call.mode \in {"offset", "cursor"} => ~run.exhausted
        /\ call.mode = "export" => run.truncated

-----------------------------------------------------------------------------
(* Properties of the filter *)

\* the needle is part of the slug, of the event slug or of the title of the trade
FieldContains(trade, needle) ==
    \/ includes(toLowerCase(trade.slug), needle)
    \/ includes(toLowerCase(trade.eventSlug), needle)
    \/ includes(toLowerCase(trade.title), needle)

\* C19: every record in the result of a range collection (offset mode or cursor
\* mode) has a timestamp inside [startTs, endTs], each bound applied only when
\* set and both inclusive, and, when a slug filter is given, holds the filter,
\* without regard to case, inside its slug, its eventSlug or its title.
C19_ResultsPassFilter ==
    call.mode \in {"offset", "cursor"} =>
        \A i \in 1..Len(run.trades) :
            LET trade == run.trades[i]
                timestamp == ClientTimestampSeconds(trade.timestamp)
                needle == toLowerCase(trim(call.slug))
            IN  /\ call.startTs # Null => call.startTs <= timestamp
                /\ call.endTs # Null => timestamp <= call.endTs
                /\ needle # <<>> => FieldContains(trade, needle)

-----------------------------------------------------------------------------
(* Properties of the page size *)

\* C20: no request sent to the upstream activity feed asks for more than the
\* configured maximum page size of 500 records, on any path that collects the
\* trade events of an account: range collection, cursor collection, full
\* export, wallet lifetime and trader profile.
C20_PageSizeClamped ==
    \A i \in 1..Len(log.recent) : log.recent[i].limit <= ACTIVITY_REQUEST_LIMIT

-----------------------------------------------------------------------------
(* Binary64 arithmetic of the lifetime analytics *)

(* The amounts of the activities are JavaScript numbers.  A number is        *)
(* [sign, m, e]: sign is -1, 0 or 1; for a number that is not zero m is the  *)
(* significand, a whole number of exactly 53 bits, and the value is          *)
(* sign * m * 2^e.  Sums, differences and quotients are rounded to nearest,  *)
(* ties to even, as IEEE 754 prescribes.  Overflow and subnormal numbers do  *)
(* not occur at the magnitudes of the model.  A whole number of more than 31 *)
(* bits is kept as a sequence of limbs of 24 bits, least significant first,  *)
(* without zero limbs at the top.                                            *)

\* bits of the significand of a binary64 number
SignificandBits == 53

\* bits of a limb
LimbBits == 24

LimbBase == 2 ^ LimbBits

\* a whole number without its zero limbs at the top
BigTrim(a) ==
    LET used == {i \in 1..Len(a) : a[i] # 0}
    IN  IF used = {} THEN <<>>
        ELSE SubSeq(a, 1, CHOOSE k \in used : \A i \in used : i <= k)

\* a natural number below 2^31 as a sequence of limbs
BigOf(n) == BigTrim(<<n % LimbBase, n \div LimbBase>>)

\* the limb of a at position i, zero above the top
Limb(a, i) == IF i >= 1 /\ i <= Len(a) THEN a[i] ELSE 0

\* a + b + carry
RECURSIVE BigAdd(_, _, _)
BigAdd(a, b, carry) ==
    IF a = <<>> /\ b = <<>> THEN (IF carry = 0 THEN <<>> ELSE <<carry>>)
    ELSE <<(Limb(a, 1) + Limb(b, 1) + carry) % LimbBase>>
            \o BigAdd(IF a = <<>> THEN a ELSE Tail(a), IF b = <<>> THEN b ELSE Tail(b),
                      (Limb(a, 1) + Limb(b, 1) + carry) \div LimbBase)

\* a - b - borrow for a >= b + borrow, with zero limbs left at the top
RECURSIVE BigSub(_, _, _)
BigSub(a, b, borrow) ==
    IF a = <<>> THEN <<>>
    ELSE <<(Limb(a, 1) - Limb(b, 1) - borrow + LimbBase) % LimbBase>>
            \o BigSub(Tail(a), IF b = <<>> THEN b ELSE Tail(b),
                      IF Limb(a, 1) - Limb(b, 1) - borrow < 0 THEN 1 ELSE 0)

\* -1, 0 or 1 as a < b, a = b or a > b
BigCompare(a, b) ==
    IF Len(a) # Len(b) THEN (IF Len(a) < Len(b) THEN -1 ELSE 1)
    ELSE LET differ == {i \in 1..Len(a) : a[i] # b[i]}
         IN  IF differ = {} THEN 0
             ELSE LET k == CHOOSE j \in differ : \A i \in differ : i <= j
                  IN  IF a[k] < b[k] THEN -1 ELSE 1

\* number of bits of a whole number that is not zero
BitLength(a) ==
    (Len(a) - 1) * LimbBits
        + CHOOSE k \in 1..LimbBits : 2 ^ (k - 1) <= a[Len(a)] /\ a[Len(a)] < 2 ^ k

\* a * 2^k
ShiftLeft(a, k) ==
    LET limbs == k \div LimbBits
        bits == k % LimbBits
        low == 2 ^ (LimbBits - bits)
    IN  BigTrim([i \in 1..limbs |-> 0]
                \o [i \in 1..(Len(a) + 1) |->
                       (Limb(a, i) % low) * (2 ^ bits) + (Limb(a, i - 1) \div low)])

\* a \div 2^k
ShiftRight(a, k) ==
    LET limbs == k \div LimbBits
        bits == k % LimbBits
    IN  BigTrim([i \in 1..(Len(a) - limbs) |->
                    (Limb(a, i + limbs) \div (2 ^ bits))
                        + (Limb(a, i + limbs + 1) % (2 ^ bits)) * (2 ^ (LimbBits - bits))])

\* a is not a multiple of 2^k
LowBitsSet(a, k) ==
    \/ \E i \in 1..(k \div LimbBits) : Limb(a, i) # 0
    \/ Limb(a, k \div LimbBits + 1) % (2 ^ (k % LimbBits)) # 0

\* the lowest bit of a
IsOdd(a) == Limb(a, 1) % 2 = 1

\* quotient and remainder of the division of a by a number below 2^6:
\* BigDiv(a, n, i, rem) divides the limbs i..1, rem being left from the limbs above
RECURSIVE BigDiv(_, _, _, _)
BigDiv(a, n, i, rem) ==
    IF i = 0 THEN [quotient |-> <<>>, remainder |-> rem]
    ELSE [quotient |->
              Append(BigDiv(a, n, i - 1, (rem * LimbBase + a[i]) % n).quotient,
                     (rem * LimbBase + a[i]) \div n),
          remainder |-> BigDiv(a, n, i - 1, (rem * LimbBase + a[i]) % n).remainder]

DoubleZero == [sign |-> 0, m |-> <<>>, e |-> 0]

\* the significand `raised`, of 53 or 54 bits, brought to 53 bits
Carried(sign, raised, e) ==
    IF BitLength(raised) > SignificandBits
    THEN [sign |-> sign, m |-> ShiftRight(raised, 1), e |-> e + 1]
    ELSE [sign |-> sign, m |-> raised, e |-> e]

\* round to nearest, ties to even: `kept` are the 53 bits kept, `guard` the bit
\* below them and `rest` whether anything below the guard bit is set
RoundKept(sign, kept, guard, rest, e) ==
    Carried(sign,
            IF guard /\ (rest \/ IsOdd(kept)) THEN BigAdd(kept, <<1>>, 0) ELSE kept,
            e)

\* RoundToDouble for a whole number of 53 + cut bits
RoundAt(sign, a, sticky, e, cut) ==
    IF cut <= 0
    THEN [sign |-> sign, m |-> ShiftLeft(a, -cut), e |-> e + cut]
    ELSE RoundKept(sign, ShiftRight(a, cut), IsOdd(ShiftRight(a, cut - 1)),
                   sticky \/ LowBitsSet(a, cut - 1), e + cut)

\* the binary64 number nearest to sign * (a + f) * 2^e, where the whole number a
\* is not zero and the fraction f < 1 is zero unless `sticky`
RoundToDouble(sign, a, sticky, e) ==
    RoundAt(sign, a, sticky, e, BitLength(a) - SignificandBits)

\* a whole number of less than 31 bits as a binary64 number
DoubleOf(k) ==
    IF k = 0 THEN DoubleZero
    ELSE RoundToDouble(IF k < 0 THEN -1 ELSE 1, BigOf(Abs(k)), FALSE, 0)

DoubleNeg(v) == [v EXCEPT !.sign = -v.sign]

\* Math.abs
DoubleAbs(v) == [v EXCEPT !.sign = Abs(v.sign)]

\* the sum of xs * a * 2^e and ys * b * 2^e for whole numbers a and b that
\* are not zero, `order` being BigCompare(a, b)
AddAligned(xs, a, ys, b, e, order) ==
    IF xs # ys /\ order = 0 THEN DoubleZero
    ELSE RoundToDouble(IF xs = ys \/ order > 0 THEN xs ELSE ys,
                       IF xs = ys THEN BigAdd(a, b, 0)
                       ELSE IF order > 0 THEN BigTrim(BigSub(a, b, 0))
                       ELSE BigTrim(BigSub(b, a, 0)),
                       FALSE, e)

\* the sum of xs * a * 2^e and ys * b * 2^e
AddWhole(xs, a, ys, b, e) == AddAligned(xs, a, ys, b, e, BigCompare(a, b))

\* x + y
DoubleAdd(x, y) ==
    IF x.sign = 0 THEN y
    ELSE IF y.sign = 0 THEN x
    ELSE AddWhole(x.sign, ShiftLeft(x.m, x.e - Min(x.e, y.e)),
                  y.sign, ShiftLeft(y.m, y.e - Min(x.e, y.e)), Min(x.e, y.e))

\* p - q
DoubleSub(p, q) == DoubleAdd(p, DoubleNeg(q))

\* p < q: the difference of two numbers is negative exactly when p < q
DoubleLess(p, q) == DoubleSub(p, q).sign < 0

\* bits the dividend is extended by, enough for a divisor below 2^6
DivisionGuardBits == 8

\* the rounded quotient, `division` being the quotient and the remainder
RoundQuotient(sign, division, e) ==
    RoundToDouble(sign, BigTrim(division.quotient), division.remainder # 0, e)

\* sign * dividend * 2^e / n
DivideWhole(sign, dividend, n, e) ==
    RoundQuotient(sign, BigDiv(dividend, n, Len(dividend), 0), e)

\* x / n for a whole number n from 1 to 63
DoubleDiv(x, n) ==
    IF x.sign = 0 THEN DoubleZero
    ELSE DivideWhole(x.sign, ShiftLeft(x.m, DivisionGuardBits), n,
                     x.e - DivisionGuardBits)

\* parseFloat of an amount written with one decimal, given in tenths: the
\* binary64 number nearest to tenths / 10
parseTenths(tenths) == DoubleDiv(DoubleOf(tenths), 10)

-----------------------------------------------------------------------------
(* Lifetime analytics: computeLifetimeAnalytics *)

\* milliseconds of a UTC calendar day: toISOString().slice(0, 10) of two
\* instants is the same string exactly when they fall into the same day
DayMs == 86400000

\* an activity without a side field
NoSide == "undefined"

\* A raw activity.  usdcSize is the amount in tenths: the feed writes it with
\* one decimal.  The type is given in capitals.
Activity(timestamp, type, side, usdcSize) ==
    [timestamp |-> timestamp, type |-> type, side |-> side, usdcSize |-> usdcSize]

ACTIVITY_POSITIVE_TYPES ==
    {"REDEEM", "SETTLEMENT", "SETTLE", "CLAIM", "PAYOUT", "REWARD", "MAKER_REBATE",
     "REBATE", "REFUND", "CREDIT"}

ACTIVITY_NEGATIVE_TYPES == {"FEE", "MAKER_FEE", "TAKER_FEE", "PENALTY", "DEBIT"}

ACTIVITY_IGNORE_TYPES == {"TRANSFER", "DEPOSIT", "WITHDRAWAL", "WITHDRAW"}

\* the upper-case letter of a lower-case letter
UpperCaseLetter ==
    [c \in {"a", "b", "c", "d", "e", "f", "g", "h", "i", "j", "k", "l", "m", "n", "o",
            "p", "q", "r", "s", "t", "u", "v", "w", "x", "y", "z"} |->
        CASE c = "a" -> "A" [] c = "b" -> "B" [] c = "c" -> "C" [] c = "d" -> "D"
          [] c = "e" -> "E" [] c = "f" -> "F" [] c = "g" -> "G" [] c = "h" -> "H"
          [] c = "i" -> "I" [] c = "j" -> "J" [] c = "k" -> "K" [] c = "l" -> "L"
          [] c = "m" -> "M" [] c = "n" -> "N" [] c = "o" -> "O" [] c = "p" -> "P"
          [] c = "q" -> "Q" [] c = "r" -> "R" [] c = "s" -> "S" [] c = "t" -> "T"
          [] c = "u" -> "U" [] c = "v" -> "V" [] c = "w" -> "W" [] c = "x" -> "X"
          [] c = "y" -> "Y" [] c = "z" -> "Z"]

RECURSIVE toUpperCase(_)
\* String.prototype.toUpperCase on the letters, digits and underscores of a type
toUpperCase(value) ==
    IF value = "" THEN ""
    ELSE LET c == SubSeq(value, 1, 1)
         IN  (IF c \in DOMAIN UpperCaseLetter THEN UpperCaseLetter[c] ELSE c)
                 \o toUpperCase(SubSeq(value, 2, Len(value)))

\* normalizeActivityType: the type of an activity in upper case
normalizeActivityType(value) == toUpperCase(value)

isIgnoredActivityType(type) ==
    \/ type \in ACTIVITY_IGNORE_TYPES
    \/ includes(type, "TRANSFER")
    \/ includes(type, "WITHDRAW")
    \/ includes(type, "DEPOSIT")
    \/ includes(type, "BRIDGE")

isPositiveActivityType(type) ==
    \/ type \in ACTIVITY_POSITIVE_TYPES
    \/ includes(type, "REDEEM")
    \/ includes(type, "REBATE")
    \/ includes(type, "REWARD")
    \/ includes(type, "PAYOUT")
    \/ includes(type, "CLAIM")
    \/ includes(type, "SETTLE")
    \/ includes(type, "CREDIT")

isNegativeActivityType(type) ==
    \/ type \in ACTIVITY_NEGATIVE_TYPES
    \/ includes(type, "FEE")
    \/ includes(type, "PENALTY")
    \/ includes(type, "DEBIT")

\* getActivityAmount: parseNumber of the first amount field present
getActivityAmount(item) == parseTenths(item.usdcSize)

\* getActivityNetDelta after getActivityAmount and normalizeActivityType
NetDeltaOfType(activity, amountRaw, type) ==
    IF amountRaw.sign = 0 THEN DoubleZero
    ELSE IF amountRaw.sign < 0 THEN amountRaw
    ELSE IF type = "TRADE" /\ activity.side = NoSide THEN DoubleZero
    ELSE IF activity.side # NoSide
    THEN [amountRaw EXCEPT !.sign = IF normalizeSide(activity.side) = "buy" THEN -1 ELSE 1]
    ELSE IF isIgnoredActivityType(type) THEN DoubleZero
    ELSE IF isPositiveActivityType(type) THEN amountRaw
    ELSE IF isNegativeActivityType(type) THEN [amountRaw EXCEPT !.sign = -1]
    ELSE DoubleZero

\* getActivityNetDelta after getActivityAmount
NetDeltaOfAmount(activity, amountRaw) ==
    NetDeltaOfType(activity, amountRaw, normalizeActivityType(activity.type))

\* getActivityNetDelta: the signed amount an activity adds to the day
getActivityNetDelta(activity) == NetDeltaOfAmount(activity, getActivityAmount(activity))

\* activities.map(index, timestamp).sort(...).map(entry => entry.activity)
SortActivities(as) ==
    LET tagged == [i \in 1..Len(as) |->
                      [activity |-> as[i], index |-> i, timestamp |-> as[i].timestamp]]
        ordered == SortEntries(tagged)
    IN  [i \in 1..Len(as) |-> ordered[i].activity]

\* the key of dailyMap: the day of the activity, counted from 1970-01-01
DateOf(timestamp) == normalizeTimestampMs(timestamp) \div DayMs

\* the bucket a day starts with
NewDay(date) ==
    [date |-> date, net |-> DoubleZero, profit |-> DoubleZero, loss |-> DoubleZero,
     events |-> 0]

\* the bucket after one more activity with a delta
UpdatedDay(existing, delta) ==
    [date |-> existing.date,
     net |-> DoubleAdd(existing.net, delta),
     profit |-> IF delta.sign > 0 THEN DoubleAdd(existing.profit, delta)
                ELSE existing.profit,
     loss |-> IF delta.sign > 0 THEN existing.loss
              ELSE DoubleAdd(existing.loss, DoubleAbs(delta)),
     events |-> existing.events + 1]

\* dailyMap after one more activity with a delta: the bucket of its day is
\* created at the end of the Map or updated in place
AddToDay(dailyMap, date, delta) ==
    LET at == {i \in 1..Len(dailyMap) : dailyMap[i].date = date}
        map == IF at = {} THEN Append(dailyMap, NewDay(date)) ELSE dailyMap
        k == IF at = {} THEN Len(dailyMap) + 1 ELSE CHOOSE i \in at : TRUE
    IN  [map EXCEPT ![k] = UpdatedDay(map[k], delta)]

\* one iteration of the loop over the sorted activities
AddActivity(acc, activity, delta) ==
    IF delta.sign = 0 THEN acc
    ELSE [netPnl |-> DoubleAdd(acc.netPnl, delta),
          totalProfit |-> IF delta.sign > 0 THEN DoubleAdd(acc.totalProfit, delta)
                          ELSE acc.totalProfit,
          totalLoss |-> IF delta.sign > 0 THEN acc.totalLoss
                        ELSE DoubleAdd(acc.totalLoss, DoubleAbs(delta)),
          dailyMap |-> IF activity.timestamp > 0
                       THEN AddToDay(acc.dailyMap, DateOf(activity.timestamp), delta)
                       ELSE acc.dailyMap]

\* the loop over the sorted activities: totals and dailyMap after them
RECURSIVE Accumulate(_, _)
Accumulate(acc, rest) ==
    IF rest = <<>> THEN acc
    ELSE Accumulate(AddActivity(acc, Head(rest), getActivityNetDelta(Head(rest))),
                    Tail(rest))

\* Array.from(dailyMap.values()).sort by date
RECURSIVE InsertDay(_, _)
InsertDay(day, seq) ==
    IF seq = <<>> THEN <<day>>
    ELSE IF day.date < Head(seq).date THEN <<day>> \o seq
    ELSE <<Head(seq)>> \o InsertDay(day, Tail(seq))

RECURSIVE SortDays(_)
SortDays(seq) ==
    IF seq = <<>> THEN <<>>
    ELSE InsertDay(Head(seq), SortDays(Tail(seq)))

\* daily.reduce: sum of the nets of the first k days that are profits
RECURSIVE totalPositive(_, _)
totalPositive(daily, k) ==
    IF k = 0 THEN DoubleZero
    ELSE DoubleAdd(totalPositive(daily, k - 1),
                   IF daily[k].net.sign > 0 THEN daily[k].net ELSE DoubleZero)

\* daily.reduce: sum of the negated nets of the first k days that are losses
RECURSIVE totalNegative(_, _)
totalNegative(daily, k) ==
    IF k = 0 THEN DoubleZero
    ELSE DoubleAdd(totalNegative(daily, k - 1),
                   IF daily[k].net.sign < 0 THEN DoubleNeg(daily[k].net) ELSE DoubleZero)

\* daily.reduce: sum of the nets of the first k days
RECURSIVE totalNet(_, _)
totalNet(daily, k) ==
    IF k = 0 THEN DoubleZero
    ELSE DoubleAdd(totalNet(daily, k - 1), daily[k].net)

\* A quotient of two numbers is kept as its numerator and denominator, and a
\* number that may be null carries a flag.
NullNumber == [null |-> TRUE, value |-> DoubleZero]

Number(value) == [null |-> FALSE, value |-> value]

NullQuotient == [null |-> TRUE, numerator |-> DoubleZero, denominator |-> DoubleZero]

Quotient(numerator, denominator) ==
    [null |-> FALSE, numerator |-> numerator, denominator |-> denominator]

\* a profit factor that is null without profit days as well
ProfitFactorOf_NullWithoutProfit(positive, negative) ==
    IF negative.sign > 0 /\ positive.sign > 0 THEN Quotient(positive, negative)
    ELSE NullQuotient

\* profitFactor = totalNegative > 0 ? totalPositive / totalNegative : null
ProfitFactorOf(positive, negative) ==
    IF negative.sign > 0 THEN Quotient(positive, negative) ELSE NullQuotient

profitFactor(daily) ==
    ProfitFactorOf(totalPositive(daily, Len(daily)), totalNegative(daily, Len(daily)))

\* one iteration of the drawdown loop after cumulative += day.net and the
\* update of the peak
DrawdownAt(before, cumulative, peak, drawdown) ==
    [cumulative |-> cumulative, peak |-> peak,
     maxDrawdown |-> IF DoubleLess(before.maxDrawdown, drawdown) THEN drawdown
                     ELSE before.maxDrawdown]

DrawdownPeak(before, cumulative, peak) ==
    DrawdownAt(before, cumulative, peak, DoubleSub(peak, cumulative))

DrawdownStep(before, cumulative) ==
    DrawdownPeak(before, cumulative,
                 IF DoubleLess(before.peak, cumulative) THEN cumulative ELSE before.peak)

\* the drawdown loop over the first k days: cumulative, peak and maxDrawdown
RECURSIVE Drawdown(_, _)
Drawdown(daily, k) ==
    IF k = 0
    THEN [cumulative |-> DoubleZero, peak |-> DoubleZero, maxDrawdown |-> DoubleZero]
    ELSE DrawdownStep(Drawdown(daily, k - 1),
                      DoubleAdd(Drawdown(daily, k - 1).cumulative, daily[k].net))

\* maxDrawdownValue = activeDays > 0 ? maxDrawdown : null
maxDrawdownValue(daily) ==
    IF Len(daily) > 0 THEN Number(Drawdown(daily, Len(daily)).maxDrawdown)
    ELSE NullNumber

NullSharpe == [null |-> TRUE, mean |-> DoubleZero, deviations |-> <<>>]

\* the ratio after the deviations day.net - mean
SharpeOfDeviations(mean, deviations) ==
    IF \E i \in 1..Len(deviations) : deviations[i].sign # 0
    THEN [null |-> FALSE, mean |-> mean, deviations |-> deviations]
    ELSE NullSharpe

SharpeOfMean(daily, mean) ==
    SharpeOfDeviations(mean, [i \in 1..Len(daily) |-> DoubleSub(daily[i].net, mean)])

\* sharpeRatio.  mean is the sum of the nets divided by activeDays; the variance
\* is the sum of the squares of the deviations day.net - mean, divided by
\* activeDays - 1, and stdev its square root.  At the magnitudes of the model the
\* square of a deviation that is not zero does not underflow, so that stdev > 0
\* exactly when some deviation is not zero.  The ratio, a function of the mean
\* and of the deviations, is kept as the two.
sharpeRatio(daily) ==
    IF Len(daily) >= 2
    THEN SharpeOfMean(daily, DoubleDiv(totalNet(daily, Len(daily)), Len(daily)))
    ELSE NullSharpe

\* an absent timestamp of the result
NullStamp == [null |-> TRUE, value |-> 0]

\* firstTrade: sorted.find(activity => parseNumber(activity.timestamp) > 0)
firstTradeAt(ordered) ==
    LET dated == {i \in 1..Len(ordered) : ordered[i].timestamp > 0}
    IN  IF dated = {} THEN NullStamp
        ELSE [null |-> FALSE,
              value |-> ordered[CHOOSE i \in dated : \A j \in dated : i <= j].timestamp]

\* lastTrade: [...sorted].reverse().find(activity => parseNumber(activity.timestamp) > 0)
lastTradeAt(ordered) ==
    LET dated == {i \in 1..Len(ordered) : ordered[i].timestamp > 0}
    IN  IF dated = {} THEN NullStamp
        ELSE [null |-> FALSE,
              value |-> ordered[CHOOSE i \in dated : \A j \in dated : i >= j].timestamp]

\* computeLifetimeAnalytics after the sort of the days
AnalyticsOfDays(totals, daily, ordered) ==
    [computed |-> TRUE,
     totalProfit |-> totals.totalProfit,
     totalLoss |-> totals.totalLoss,
     netPnl |-> totals.netPnl,
     daily |-> daily,
     profitFactor |-> profitFactor(daily),
     maxDrawdown |-> maxDrawdownValue(daily),
     sharpeRatio |-> sharpeRatio(daily),
     activeDays |-> Len(daily),
     firstTradeAt |-> firstTradeAt(ordered),
     lastTradeAt |-> lastTradeAt(ordered)]

\* computeLifetimeAnalytics after the loop over the sorted activities
AnalyticsOfTotals(totals, ordered) ==
    AnalyticsOfDays(totals, SortDays(totals.dailyMap), ordered)

\* computeLifetimeAnalytics after the sort of the activities
AnalyticsOfSorted(ordered) ==
    AnalyticsOfTotals(
        Accumulate([netPnl |-> DoubleZero, totalProfit |-> DoubleZero,
                    totalLoss |-> DoubleZero, dailyMap |-> <<>>],
                   ordered),
        ordered)

\* computeLifetimeAnalytics
computeLifetimeAnalytics(as) == AnalyticsOfSorted(SortActivities(as))

\* no analytics computed yet
NoAnalytics ==
    [computed |-> FALSE, totalProfit |-> DoubleZero, totalLoss |-> DoubleZero,
     netPnl |-> DoubleZero, daily |-> <<>>, profitFactor |-> NullQuotient,
     maxDrawdown |-> NullNumber, sharpeRatio |-> NullSharpe, activeDays |-> 0,
     firstTradeAt |-> NullStamp, lastTradeAt |-> NullStamp]

\* activities per request of the enumerated inputs
MaxActivities == 3

\* a trade of the given day (day 1 is 1970-01-02), at noon
TradeOn(day, side, usdcSize) ==
    Activity(day * DayMs + DayMs \div 2, "TRADE", side, usdcSize)

\* the trades the enumerated inputs are made of: three days, a buy of 5.0, a
\* sell of 5.0 and a sell of 0.1
SampleActivities ==
    {TradeOn(day, "BUY", 50) : day \in 1..3}
        \cup {TradeOn(day, "SELL", 50) : day \in 1..3}
        \cup {TradeOn(day, "SELL", 1) : day \in 1..3}

\* Scenario D: daily nets +10, -5, +3, -12, +4, the activities newest first
ScenarioDActivities ==
    <<TradeOn(5, "SELL", 40), TradeOn(4, "BUY", 120), TradeOn(3, "SELL", 30),
      TradeOn(2, "BUY", 50), TradeOn(1, "SELL", 100)>>

\* activities of every kind: a redemption, a fee, a deposit, an activity without
\* amount, one without timestamp, one dated in seconds, a negative amount
MixedActivities ==
    <<Activity(3 * DayMs + 1, "REDEEM", NoSide, 25),
      Activity(3 * DayMs + 2, "FEE", NoSide, 3),
      Activity(2 * DayMs + 5, "DEPOSIT", NoSide, 1000),
      Activity(2 * DayMs + 4, "TRADE", "SELL", 0),
      Activity(0, "TRADE", "BUY", 70),
      Activity(90000, "TRADE", "sell", 12),
      Activity(2 * DayMs + 3, "REWARD", NoSide, -4),
      Activity(2 * DayMs + 2, "TRADE", NoSide, 9),
      Activity(2 * DayMs + 1, "AIRDROP", NoSide, 9)>>

AnalyticsInputs ==
    UNION {[1..n -> SampleActivities] : n \in 0..MaxActivities}
        \cup {ScenarioDActivities, MixedActivities}

AnalyticsInit ==
    /\ activities \in AnalyticsInputs
    /\ analytics = NoAnalytics
    /\ pc = "idle"
    /\ trades = <<>>
    /\ sorted = <<>>
    /\ sPositions = <<>>
    /\ summary = <<>>
    /\ hPositions = <<>>
    /\ history = <<>>
    /\ feed = <<>>
    /\ grown = 0
    /\ batchSize = 0
    /\ upstream = "static"
    /\ call = <<>>
    /\ run = <<>>
    /\ log = <<>>
    /\ earlier = <<>>
    /\ flight = <<>>
    /\ cancelRef = FALSE
    /\ bot = BotAtLoad

\* GET /api/wallet/lifetime: the analytics of the collected activities
LifetimeAnalytics ==
    /\ ~analytics.computed
    /\ analytics' = computeLifetimeAnalytics(activities)
    /\ UNCHANGED <<activities, replayVars, collectVars, cancelVars, bot>>

AnalyticsNext == LifetimeAnalytics

SpecAnalytics == AnalyticsInit /\ [][AnalyticsNext]_vars

-----------------------------------------------------------------------------
(* Properties of the lifetime analytics *)

\* c_j: the cumulative daily net after the first j days in date order
CumulativeNet(daily, j) == totalNet(daily, j)

\* the cumulative daily net never decreases from one day to the next
CumulativeNonDecreasing(daily) ==
    \A j \in 1..(Len(daily) - 1) :
        ~DoubleLess(CumulativeNet(daily, j + 1), CumulativeNet(daily, j))

\* C15: for every sequence of daily nets maxDrawdown is not negative, and it is 0
\* whenever the cumulative daily net never decreases over the days in date
\* order, a first day with a negative net followed by days with nets >= 0
\* included.
C15_DrawdownZeroWhenNonDecreasing ==
    analytics.computed /\ ~analytics.maxDrawdown.null
        => /\ analytics.maxDrawdown.value.sign >= 0
           /\ CumulativeNonDecreasing(analytics.daily)
                 => analytics.maxDrawdown.value = DoubleZero

\* peak_j: the largest cumulative daily net observed up to day j
RunningPeak(daily, j) ==
    CumulativeNet(daily,
                  CHOOSE i \in 1..j :
                      \A k \in 1..j :
                          ~DoubleLess(CumulativeNet(daily, i), CumulativeNet(daily, k)))

\* peak_j - c_j
RunningDrawdown(daily, j) == DoubleSub(RunningPeak(daily, j), CumulativeNet(daily, j))

\* the largest of the drawdowns peak_j - c_j, 0 without days
LargestRunningDrawdown(daily) ==
    IF daily = <<>> THEN DoubleZero
    ELSE RunningDrawdown(daily,
                         CHOOSE j \in 1..Len(daily) :
                             \A k \in 1..Len(daily) :
                                 ~DoubleLess(RunningDrawdown(daily, j),
                                             RunningDrawdown(daily, k)))

\* C16: maxDrawdown is the largest of the drawdowns peak_j - c_j over the days in
\* date order, c_j being the cumulative daily net and peak_j the largest
\* cumulative daily net observed up to day j; it is 0 without active days; the
\* daily nets +10, -5, +3, -12, +4 give 14.
C16_DrawdownIsRunningPeak ==
    analytics.computed
        => /\ ~analytics.maxDrawdown.null
           /\ analytics.maxDrawdown.value = LargestRunningDrawdown(analytics.daily)
           /\ activities = ScenarioDActivities
                 => analytics.maxDrawdown.value = DoubleOf(14)

\* the sum of |net| over those of the first k days whose net has the given sign
RECURSIVE SumOfDays(_, _, _)
SumOfDays(daily, k, sign) ==
    IF k = 0 THEN DoubleZero
    ELSE IF daily[k].net.sign = sign
    THEN DoubleAdd(SumOfDays(daily, k - 1, sign), DoubleAbs(daily[k].net))
    ELSE SumOfDays(daily, k - 1, sign)

LossDays(daily) == {i \in 1..Len(daily) : daily[i].net.sign < 0}

ProfitDays(daily) == {i \in 1..Len(daily) : daily[i].net.sign > 0}

\* C17: profitFactor is null exactly when no day has a negative net; otherwise
\* it is the sum of the nets of the days with net > 0 divided by the sum of
\* |net| of the days with net < 0, which is 0 and not null when there are loss
\* days and no profit day.
C17_ProfitFactor ==
    analytics.computed
        => /\ analytics.profitFactor.null <=> LossDays(analytics.daily) = {}
           /\ LossDays(analytics.daily) # {}
                 => /\ analytics.profitFactor.numerator
                          = SumOfDays(analytics.daily, Len(analytics.daily), 1)
                    /\ analytics.profitFactor.denominator
                          = SumOfDays(analytics.daily, Len(analytics.daily), -1)
           /\ LossDays(analytics.daily) # {} /\ ProfitDays(analytics.daily) = {}
                 => analytics.profitFactor = Quotient(DoubleZero,
                                                      analytics.profitFactor.denominator)

\* analytics over two profit days and a loss day: the factor is a ratio
C17_Witness ==
    /\ analytics.computed
    /\ Cardinality(ProfitDays(analytics.daily)) = 2
    /\ Cardinality(LossDays(analytics.daily)) = 1
    /\ ~analytics.profitFactor.null
    /\ analytics.profitFactor.numerator.sign > 0

\* all daily nets are the same number
AllNetsEqual(daily) ==
    \A i, j \in 1..Len(daily) : daily[i].net = daily[j].net

\* C18: sharpeRatio is null with fewer than 2 active days and whenever all daily
\* nets are equal, and it is a number exactly when there are at least 2 active
\* days whose nets are not all equal.
C18_SharpeNull ==
    analytics.computed
        => (analytics.sharpeRatio.null
               <=> (analytics.activeDays < 2 \/ AllNetsEqual(analytics.daily)))

-----------------------------------------------------------------------------
(* Properties of a page body that is not an array *)

\* C21: a page whose body is not an array is a hard failure of that page: the
\* run ends with an error and is not reported as a normal end of the feed, with
\* exhausted = true and the records collected so far.
C21_NonArrayIsFailure ==
    run.fault = "not-array" =>
        /\ run.error # ""
        /\ ~run.exhausted

-----------------------------------------------------------------------------
(* Repeated invocations: the replays and the analytics are called a second  *)
(* time on the arguments of the first call                                  *)

\* the trades of the repeated replays: at most two events
RepeatInputs == {ts \in ReplayInputs : Len(ts) <= 2}

RepeatInit ==
    /\ pc = "idle"
    /\ trades \in RepeatInputs
    /\ activities \in {ScenarioDActivities, MixedActivities}
    /\ analytics = NoAnalytics
    /\ sorted = <<>>
    /\ sPositions = <<>>
    /\ summary = <<>>
    /\ hPositions = <<>>
    /\ history = <<>>
    /\ feed = <<>>
    /\ grown = 0
    /\ batchSize = 0
    /\ upstream = "static"
    /\ call = <<>>
    /\ run = <<>>
    /\ log = <<>>
    /\ earlier = <<>>
    /\ flight = <<>>
    /\ cancelRef = FALSE
    /\ bot = BotAtLoad

\* the next request: its handler calls computePositionSummary,
\* computePositionHistory and computeLifetimeAnalytics with the same arguments;
\* what the first calls returned is kept in `earlier`
ReplayAgain ==
    /\ pc = "done"
    /\ analytics.computed
    /\ earlier = <<>>
    /\ earlier' = <<[trades |-> trades, activities |-> activities, summary |-> summary,
                     history |-> history, analytics |-> analytics]>>
    /\ pc' = "idle"
    /\ analytics' = NoAnalytics
    /\ UNCHANGED <<trades, sorted, sPositions, summary, hPositions, history>>
    /\ UNCHANGED <<feed, grown, batchSize, upstream, call, run, log, activities,
                   cancelVars, bot>>

RepeatNext ==
    \/ SummaryBegin
    \/ SummaryStep
    \/ SummaryReturn
    \/ HistoryStep
    \/ HistoryReturn
    \/ LifetimeAnalytics
    \/ ReplayAgain

SpecRepeat == RepeatInit /\ [][RepeatNext]_vars

-----------------------------------------------------------------------------
(* Properties of the cursor boundary *)

\* the page a cursor run is about to receive
NextCursorPage ==
    UpstreamCursorPage(feed, upstream, call.startTs, run.cursorEnd,
                       CursorBatchLimit(RouteLimit(ExportRequestLimit(run, call),
                                                   call.startTs, run.cursorEnd),
                                        batchSize))

\* the feed holds a wanted record older than the cursor that no run has
\* delivered yet
OlderUndelivered ==
    \E i \in 1..FeedLen(feed) :
        /\ WantedBy(FirstCall, FeedItem(feed, i))
        /\ run.cursorEnd # Null
        /\ FeedItem(feed, i).timestamp < run.cursorEnd
        /\ FeedItem(feed, i).uid \notin Uids(AllTrades)

\* a step of a cursor run: one page is fetched and handled
CursorPageStep == call.mode = "cursor" /\ ~run.done /\ call' = call /\ run' # run

C23_Step ==
    CursorPageStep =>
        /\ ~run'.done => run'.cursorEnd = getOldestTimestampSeconds(NextCursorPage)
        /\ KeyedFeed => NoDuplicateKeys(run'.trades)
        /\ (StaticFeed /\ KeyedFeed
              /\ run'.warning = "Cursor stalled; exported available data.")
              => ~OlderUndelivered'

\* C23: in cursor mode the end boundary of the next request is the oldest
\* timestamp of the page just fetched, with nothing subtracted; records that
\* come again at that boundary are dropped as duplicates; and a run is not
\* ended as stalled by a page of such records alone while the feed still holds
\* older records of the range that were never delivered.
C23_InclusiveBoundary == [][C23_Step]_vars

-----------------------------------------------------------------------------
(* Events out of order: the events of one account, dated in seconds or in  *)
(* milliseconds, handed to the replays and to the analytics in any order   *)

\* the timestamps of the events: none, 100 s and 150 s in seconds, 100 s and
\* 120 s in milliseconds
OrderStamps == {0, 100, 150, 100 * 1000, 120 * 1000}

\* a buy of one share for 3 on either of two instruments
OrderTrades ==
    {Trade("BUY", R(1), R(3), Missing, asset, timestamp) :
        asset \in {"A", "B"}, timestamp \in OrderStamps}

OrderInputs == UNION {[1..n -> OrderTrades] : n \in 0..MaxEvents}

\* the activity record of a trade, as the analytics read it
ActivityOfTrade(trade) == Activity(trade.timestamp, "TRADE", trade.side, 30)

OrderInit ==
    /\ pc = "idle"
    /\ trades \in OrderInputs
    /\ activities = [i \in 1..Len(trades) |-> ActivityOfTrade(trades[i])]
    /\ analytics = NoAnalytics
    /\ sorted = <<>>
    /\ sPositions = <<>>
    /\ summary = <<>>
    /\ hPositions = <<>>
    /\ history = <<>>
    /\ feed = <<>>
    /\ grown = 0
    /\ batchSize = 0
    /\ upstream = "static"
    /\ call = <<>>
    /\ run = <<>>
    /\ log = <<>>
    /\ earlier = <<>>
    /\ flight = <<>>
    /\ cancelRef = FALSE
    /\ bot = BotAtLoad

OrderNext ==
    \/ SummaryBegin
    \/ SummaryStep
    \/ SummaryReturn
    \/ HistoryStep
    \/ HistoryReturn
    \/ LifetimeAnalytics

SpecOrder == OrderInit /\ [][OrderNext]_vars

\* the instant of a timestamp of either unit, in milliseconds
Instant(timestamp) == normalizeTimestampMs(timestamp)

\* p lists the indexes of the events by ascending instant, events of one
\* instant by ascending arrival index
InTimeOrder(events, p) ==
    /\ \A k \in 1..Len(events) : \E i \in 1..Len(events) : p[i] = k
    /\ \A i, j \in 1..Len(events) :
          i < j =>
              \/ Instant(events[p[i]].timestamp) < Instant(events[p[j]].timestamp)
              \/ /\ Instant(events[p[i]].timestamp) = Instant(events[p[j]].timestamp)
                 /\ p[i] < p[j]

TimeOrder(events) ==
    CHOOSE p \in [1..Len(events) -> 1..Len(events)] : InTimeOrder(events, p)

\* the history entries follow the events in time order
HistoryInTimeOrder(p) ==
    /\ Len(history) = Len(trades)
    /\ \A i \in 1..Len(trades) :
          /\ history[i].timestamp = trades[p[i]].timestamp
          /\ history[i].key = getPositionKey(trades[p[i]])

\* the first and the last dated activity the analytics met are the earliest and
\* the latest dated activity in time order
AnalyticsInTimeOrder(p) ==
    LET dated == {i \in 1..Len(activities) : activities[p[i]].timestamp > 0}
    IN  IF dated = {}
        THEN analytics.firstTradeAt.null /\ analytics.lastTradeAt.null
        ELSE /\ analytics.firstTradeAt =
                    [null |-> FALSE,
                     value |-> activities[p[CHOOSE i \in dated :
                                               \A j \in dated : i <= j]].timestamp]
             /\ analytics.lastTradeAt =
                    [null |-> FALSE,
                     value |-> activities[p[CHOOSE i \in dated :
                                               \A j \in dated : i >= j]].timestamp]

\* C24: the replay and the analytics go through the events by ascending
\* timestamp, events of one timestamp in the order they arrived in: whatever
\* the order of arrival, the history entries come out in that order, and the
\* first and the last activity of the analytics are the earliest and the latest.
C24_TimestampOrder ==
    /\ pc = "done" => HistoryInTimeOrder(TimeOrder(trades))
    /\ analytics.computed => AnalyticsInTimeOrder(TimeOrder(activities))

-----------------------------------------------------------------------------
(* The signed delta of one activity: the analytics of a single activity of  *)
(* each type, side and amount                                               *)

\* the types of the activities: the listed ones, longer types that contain a
\* listed one, types in lower case, and a type of no list
DeltaTypes ==
    {"TRADE", "trade", "REDEEM", "redeem", "SETTLEMENT", "SETTLE", "CLAIM", "PAYOUT",
     "REWARD", "MAKER_REBATE", "REFUND", "TAX_REFUND", "CREDIT", "FEE", "TAKER_FEE",
     "PENALTY", "DEBIT", "TRANSFER", "DEPOSIT", "WITHDRAWAL", "BRIDGE_OUT", "AIRDROP"}

DeltaSides == {NoSide, "BUY", "SELL", "sell"}

\* amounts in tenths: none, 2.5 and -0.4
DeltaAmounts == {0, 25, -4}

DeltaInputs ==
    {<<Activity(DayMs + 1, type, side, usdcSize)>> :
        type \in DeltaTypes, side \in DeltaSides, usdcSize \in DeltaAmounts}

DeltaInit ==
    /\ activities \in DeltaInputs
    /\ analytics = NoAnalytics
    /\ pc = "idle"
    /\ trades = <<>>
    /\ sorted = <<>>
    /\ sPositions = <<>>
    /\ summary = <<>>
    /\ hPositions = <<>>
    /\ history = <<>>
    /\ feed = <<>>
    /\ grown = 0
    /\ batchSize = 0
    /\ upstream = "static"
    /\ call = <<>>
    /\ run = <<>>
    /\ log = <<>>
    /\ earlier = <<>>
    /\ flight = <<>>
    /\ cancelRef = FALSE
    /\ bot = BotAtLoad

SpecDelta == DeltaInit /\ [][LifetimeAnalytics]_vars

\* the type is, or contains, one of the words
NamesOneOf(type, words) == \E word \in words : includes(type, word)

PositiveWords ==
    {"REDEEM", "SETTLEMENT", "CLAIM", "PAYOUT", "REWARD", "REBATE", "REFUND", "CREDIT"}

NegativeWords == {"FEE", "PENALTY", "DEBIT"}

IgnoredWords == {"TRANSFER", "DEPOSIT", "WITHDRAW", "BRIDGE"}

\* the deltas the type rule allows: the delta of each list the type is in, and
\* zero for a type of no list
DeltasOfType(type, amount) ==
    LET positive == IF NamesOneOf(type, PositiveWords) THEN {amount} ELSE {}
        negative == IF NamesOneOf(type, NegativeWords) THEN {DoubleNeg(amount)} ELSE {}
        ignored == IF NamesOneOf(type, IgnoredWords) THEN {DoubleZero} ELSE {}
        listed == positive \cup negative \cup ignored
    IN  IF listed = {} THEN {DoubleZero} ELSE listed

\* the deltas the precedence allows for an activity
DeltasOfActivity(activity, amount) ==
    IF amount.sign = 0 THEN {DoubleZero}
    ELSE IF amount.sign < 0 THEN {amount}
    ELSE IF activity.side # NoSide
    THEN {IF normalizeSide(activity.side) = "buy" THEN DoubleNeg(amount) ELSE amount}
    ELSE DeltasOfType(normalizeActivityType(activity.type), amount)

\* C25: the delta of an activity follows the precedence: a negative amount as
\* it is; else minus the amount for a buy and plus the amount for a sell,
\* whatever the type; else by the type: plus the amount for a type that is or
\* contains REDEEM, SETTLEMENT, CLAIM, PAYOUT, REWARD, REBATE, REFUND or CREDIT,
\* minus the amount for FEE, PENALTY or DEBIT, zero for TRANSFER, DEPOSIT,
\* WITHDRAW or BRIDGE and for every other type.
C25_DeltaPrecedence ==
    analytics.computed /\ Len(activities) = 1 =>
        analytics.netPnl \in DeltasOfActivity(activities[1],
                                              getActivityAmount(activities[1]))

-----------------------------------------------------------------------------
(* Properties of the daily buckets *)

\* the sum of one amount of the first k buckets
RECURSIVE SumOfBuckets(_, _, _)
SumOfBuckets(daily, k, field) ==
    IF k = 0 THEN DoubleZero
    ELSE DoubleAdd(SumOfBuckets(daily, k - 1, field), daily[k][field])

\* the events of the first k buckets
RECURSIVE EventsOfBuckets(_, _)
EventsOfBuckets(daily, k) ==
    IF k = 0 THEN 0 ELSE EventsOfBuckets(daily, k - 1) + daily[k].events

\* the activities that have a delta
WithDelta == {i \in 1..Len(activities) : getActivityNetDelta(activities[i]).sign # 0}

\* C26: every activity with a delta other than zero is in one daily bucket, so
\* that the totals are the sums over the buckets: of net for netPnl, of profit
\* for totalProfit, of loss for totalLoss, and of the event counts for the
\* number of activities with a delta.
C26_TotalsFromBuckets ==
    analytics.computed =>
        /\ SumOfBuckets(analytics.daily, Len(analytics.daily), "net") = analytics.netPnl
        /\ SumOfBuckets(analytics.daily, Len(analytics.daily), "profit")
               = analytics.totalProfit
        /\ SumOfBuckets(analytics.daily, Len(analytics.daily), "loss")
               = analytics.totalLoss
        /\ EventsOfBuckets(analytics.daily, Len(analytics.daily)) = Cardinality(WithDelta)

-----------------------------------------------------------------------------
(* Properties of a sell without open size *)

\* a sell of a size above zero on an instrument whose open size is q = 0
UnmatchedSell(q) == NextIsSell /\ RPos(NextSize) /\ RIsZero(q)

C27_Step ==
    /\ (pc = "summary" /\ sorted # <<>> /\ UnmatchedSell(SummaryBefore.openSize)) =>
          LET after == MapGet(sPositions', NextKey)
          IN  /\ after.openSize = RAdd(SummaryBefore.openSize, NextSize)
              /\ after.costBasisUsd = RAdd(SummaryBefore.costBasisUsd, NextUsdc)
              /\ after.realizedPnl = SummaryBefore.realizedPnl
    /\ (pc = "history" /\ sorted # <<>> /\ UnmatchedSell(HistoryBefore.size)) =>
          LET entry == history'[Len(history')]
          IN  /\ entry.positionSize = RAdd(HistoryBefore.size, NextSize)
              /\ entry.positionCostBasis = RAdd(HistoryBefore.costBasisUsd, NextUsdc)
              /\ entry.realizedPnl = Zero

\* C27: a sell on an instrument without open size is applied like a buy: the
\* open size grows by the size of the trade, the cost basis by its notional,
\* and nothing is realized, in both replays.
C27_UnmatchedSellOpens == [][C27_Step]_vars

-----------------------------------------------------------------------------
(* Properties of the history entries *)

\* the index of the last history entry of the key, 0 when it has none
LastEntryOf(key) ==
    LET at == {i \in 1..Len(history) : history[i].key = key}
    IN  IF at = {} THEN 0 ELSE CHOOSE i \in at : \A j \in at : j <= i

\* C28: the history replay emits one entry per event, in the order of the
\* sorted events, none dropped and none added; the entry carries the position
\* after its event; and its cumulativeRealizedPnl is the sum of the realizedPnl
\* of the entries of its key up to and including itself.
C28_OneEntryPerEvent ==
    pc \in {"history", "done"} =>
        /\ Len(history) + Len(sorted) = Len(trades)
        /\ \A i \in 1..Len(history) :
              LET trade == SortTrades(trades)[i]
              IN  /\ history[i].key = getPositionKey(trade)
                  /\ history[i].side = normalizeSide(trade.side)
                  /\ history[i].tradeSize = ResolveSize(trade)
                  /\ history[i].timestamp = trade.timestamp
        /\ \A i \in 1..Len(history) :
              history[i].cumulativeRealizedPnl
                  = SumRealized(SubSeq(history, 1, i), history[i].key)
        /\ \A k \in 1..Len(hPositions) :
              LET last == LastEntryOf(hPositions[k].key)
              IN  /\ last > 0
                  /\ history[last].positionSize = hPositions[k].size
                  /\ history[last].positionCostBasis = hPositions[k].costBasisUsd
                  /\ history[last].cumulativeRealizedPnl = hPositions[k].realizedPnl
        /\ \A i \in 1..Len(history) : MapHas(hPositions, history[i].key)

\* C28 witness: a buy of 2 and two sells of 1 have been replayed: each sell
\* realizes 1.5 and the last entry carries the total of 3.
C28_Witness ==
    /\ pc = "done"
    /\ Len(history) = 3
    /\ history[2].realizedPnl = Rat(3, 2)
    /\ history[3].realizedPnl = Rat(3, 2)
    /\ history[3].cumulativeRealizedPnl = R(3)
    /\ history[3].key = history[2].key

\* C29: the two replays agree on where every instrument ends: the positionSize
\* and the status of the last history entry of a key are the openSize and the
\* status of the key's summary entry, and the summary entry is OPEN exactly
\* when its openSize is above zero.
C29_ReplaysAgreeOnFinalPosition ==
    pc = "done" =>
        \A i \in 1..Len(summary) :
            LET last == LastEntryOf(summary[i].key)
            IN  /\ last > 0
                /\ history[last].positionSize = summary[i].openSize
                /\ history[last].status = summary[i].status
                /\ summary[i].status = "OPEN" <=> RPos(summary[i].openSize)

-----------------------------------------------------------------------------
(* The bot: POST /api/start and POST /api/stop.  startBot and stopBot are   *)
(* async functions on the module variables state, startedAt and lastError;  *)
(* a call runs to its next await, and the calls waiting at an await resume  *)
(* in any order.  The trade monitor and the trade executor are modules of   *)
(* their own: a service counts as started from its start call to its stop   *)
(* call.  Date.now() is the number of calls issued so far; null is 0 for    *)
(* startedAt and the empty string for lastError.                            *)

\* the calls without the i-th
WithoutCall(calls, i) ==
    [k \in 1..(Len(calls) - 1) |-> IF k < i THEN calls[k] ELSE calls[k + 1]]

\* startBot up to its first await: await ensureDbConnection()
StartBotCall ==
    /\ bot.issued < MaxCalls
    /\ bot' = IF bot.state \in {"running", "starting"}
              THEN [bot EXCEPT !.issued = @ + 1]
              ELSE [bot EXCEPT !.issued = @ + 1,
                               !.state = "starting",
                               !.lastError = "",
                               !.calls = Append(@, [op |-> "start", at |-> "db"])]
    /\ UNCHANGED <<replayVars, collectVars, cancelVars, analyticsVars>>

\* ensureDbConnection resolved: startBot goes on to await createClobClient()
StartBotConnected ==
    \E i \in 1..Len(bot.calls) :
        /\ bot.calls[i] = [op |-> "start", at |-> "db"]
        /\ bot' = [bot EXCEPT !.calls[i].at = "clob"]
        /\ UNCHANGED <<replayVars, collectVars, cancelVars, analyticsVars>>

\* createClobClient resolved: the services are started, startedAt is set and
\* the state is 'running'
StartBotRunning ==
    \E i \in 1..Len(bot.calls) :
        /\ bot.calls[i] = [op |-> "start", at |-> "clob"]
        /\ bot' = [bot EXCEPT !.monitor = TRUE,
                              !.executor = TRUE,
                              !.startedAt = bot.issued,
                              !.state = "running",
                              !.calls = WithoutCall(@, i)]
        /\ UNCHANGED <<replayVars, collectVars, cancelVars, analyticsVars>>

\* ensureDbConnection or createClobClient rejected: the catch of startBot
StartBotFailed ==
    \E i \in 1..Len(bot.calls) :
        /\ bot.calls[i].op = "start"
        /\ bot' = [bot EXCEPT !.lastError = bot.calls[i].at,
                              !.state = "error",
                              !.calls = WithoutCall(@, i)]
        /\ UNCHANGED <<replayVars, collectVars, cancelVars, analyticsVars>>

\* stopBot up to its await of the two-second timer: the services are told to
\* stop and the state is 'stopping'
StopBotCall ==
    /\ bot.issued < MaxCalls
    /\ bot' = IF bot.state \in {"stopped", "stopping"}
              THEN [bot EXCEPT !.issued = @ + 1]
              ELSE [bot EXCEPT !.issued = @ + 1,
                               !.state = "stopping",
                               !.monitor = FALSE,
                               !.executor = FALSE,
                               !.calls = Append(@, [op |-> "stop", at |-> "timer"])]
    /\ UNCHANGED <<replayVars, collectVars, cancelVars, analyticsVars>>

\* the timer fired; /api/stop passes closeDb: false, so that stopBot goes on
\* to state = 'stopped' and startedAt = null
StopBotStopped ==
    \E i \in 1..Len(bot.calls) :
        /\ bot.calls[i] = [op |-> "stop", at |-> "timer"]
        /\ bot' = [bot EXCEPT !.state = "stopped",
                              !.startedAt = 0,
                              !.calls = WithoutCall(@, i)]
        /\ UNCHANGED <<replayVars, collectVars, cancelVars, analyticsVars>>

BotInit ==
    /\ bot = BotAtLoad
    /\ pc = "idle"
    /\ trades = <<>>
    /\ sorted = <<>>
    /\ sPositions = <<>>
    /\ summary = <<>>
    /\ hPositions = <<>>
    /\ history = <<>>
    /\ feed = <<>>
    /\ grown = 0
    /\ batchSize = 0
    /\ upstream = "static"
    /\ call = <<>>
    /\ run = <<>>
    /\ log = <<>>
    /\ earlier = <<>>
    /\ flight = <<>>
    /\ cancelRef = FALSE
    /\ activities = <<>>
    /\ analytics = <<>>

BotNext ==
    \/ StartBotCall
    \/ StartBotConnected
    \/ StartBotRunning
    \/ StartBotFailed
    \/ StopBotCall
    \/ StopBotStopped

SpecBot == BotInit /\ [][BotNext]_vars

\* C30: whatever the order in which startBot and stopBot calls are issued and
\* resume from their awaits, the state is 'stopped' only while the trade
\* monitor and the trade executor are not started; a startBot issued while a
\* stopBot waits in 'stopping' does not leave the services started under a
\* state 'stopped' with startedAt null.
C30_StoppedMeansServicesStopped ==
    bot.state = "stopped" =>
        /\ ~bot.monitor
        /\ ~bot.executor

====
